---------------------------- MODULE Spec2Model ----------------------------
(***************************************************************************)
(* A model of the ublox-gps decoder: the UBX frame splitter (split_ubx,    *)
(* find_rxm_raw, rxm_checksum), the RXM-RAWX decoder                       *)
(* (UbxRxmRawx::from_message with the satellite / channel taxonomy) and    *)
(* the parse_messages pipeline that joins them.                            *)
(*                                                                         *)
(* Bytes are the integers 0..255 and a buffer is a sequence of bytes.      *)
(* Rust indices are 0-based, the sequences here are 1-based: a Rust index  *)
(* i is position i + 1.                                                    *)
(***************************************************************************)
EXTENDS Integers, Sequences, FiniteSets, TLC

VARIABLES
    input,      \* the buffer handed to split_ubx / parse_messages
    buf,        \* split_ubx: `buf`, the buffer frames are drained from
    messages,   \* split_ubx: `messages`, the UbxMessage values pushed so far
    origin,     \* for each byte of buf, its position in input (history)
    taken,      \* for each message, the input positions of its drained bytes
    pc,         \* split_ubx: "split" in the while loop, "done", "panic"
    message,    \* from_message: the UbxMessage being decoded
    rx,         \* from_message: its locals (loop index, msg under construction)
    rpc,        \* from_message: "idle", "check", "records", "ok", "err", "panic"
    checks,     \* build profile: TRUE when integer overflow checks are on
    rxm,        \* parse_messages: `rxm`, the decoded RAWX frames
    ppc,        \* parse_messages: "idle", "run", "err", "panic"
    perr,       \* parse_messages: the error returned, "" when none
    src,        \* assimilate: `src.carrier_phase()`, satellite -> SatPathInfo
    decoded,    \* TRUE when the lists of src come from from_message (history)
    todo,       \* assimilate: the satellites the `for` loop has not visited yet
    tec,        \* assimilate: `tec`, the TecData pushed so far
    tpc,        \* assimilate: "idle", "loop", "none", "some"
    stream,     \* the bytes the upstream reader delivers in all (history)
    upstream,   \* ReadUntil: `reader`, the bytes it has not delivered yet
    until,      \* ReadUntil: `until`, the delimiter
    ubuf,       \* ReadUntil: `buf`, the current block
    uread,      \* ReadUntil: `read`, the position in the block
    dst,        \* read_to_end: the caller's `buf`, empty when the call starts
    nread,      \* read_to_end: the local `read`
    results,    \* what each finished read_to_end call returned (history)
    upc,        \* read_to_end: "off", "idle" between calls, "loop" in a call
    nmea,       \* UbxGpsInfo::new: `nmea`, the NmeaGpsInfo (time, loc, sat_views)
    new_rxm,    \* UbxGpsInfo::new: `rxm`, None or the decoded UbxRxmRawx
    gpsinfo,    \* UbxGpsInfo::new: the UbxGpsInfo returned, <<>> before the call
    satellite,  \* serde: the GnssSatellite that is serialised
    json,       \* serde: the string serialize produced, as bytes
    restored,   \* serde: the GnssSatellite deserialize returned
    jpc,        \* serde: "idle", "value", "text", "done", "panic"
    lhs,        \* Uncertain::mul: `self`, the pair (value, stdev)
    rhs,        \* Uncertain::mul: `other`
    product,    \* Uncertain::mul: the Uncertain returned, <<>> before the call
    text,       \* parse_str: `data`, the text of a buffer, as bytes
    gpsmsg,     \* parse_str: the validated sentences, in the order of the text
    created,    \* create: the Result returned, <<>> before the call
    npc,        \* "idle", "text", "parsed", "ok", "err", "panic"
    buffers,    \* parse_datafile: `buffers`, the UbxGpsInfo pushed so far
    handed,     \* the buffers handed to parse_messages so far (history)
    dpc,        \* parse_datafile: "idle", "call", "ret", "done", "panic"
    cfg,        \* the StoreCfg values: their fields and whether they are alive
    COMPRESSION_THREAD_TX,\* the process-global sender, None until a worker is spawned
    mpsc,       \* the messages of the mpsc channel the worker has not received
    compressor, \* the compression thread: none, recv, compress or exited
    last_dir,   \* worker: the directory it received and is compressing
    dirs,       \* file system: the directories that exist
    files,      \* file system: the data files that exist
    tarballs,   \* file system: the directories a .tar.gz was created for
    sent,       \* history: the paths store passed to tx.send, with their StoreCfg
    received,   \* history: the paths the worker received
    nwrites     \* the number of store calls so far

splitVars == <<input, buf, messages, origin, taken, pc>>
rawxVars  == <<message, rx, rpc>>
parseVars == <<rxm, ppc, perr>>
tecVars == <<src, decoded, todo, tec, tpc>>
readVars == <<stream, upstream, until, ubuf, uread, dst, nread, results, upc>>
newVars == <<nmea, new_rxm, gpsinfo>>
serdeVars == <<satellite, json, restored, jpc>>
mulVars == <<lhs, rhs, product>>
nmeaVars == <<text, gpsmsg, created, npc>>
dataVars == <<buffers, handed, dpc>>
storeVars == <<cfg, COMPRESSION_THREAD_TX, mpsc, compressor, last_dir, dirs, files,
               tarballs, sent, received, nwrites>>
vars == <<input, buf, messages, origin, taken, pc, message, rx, rpc, checks,
          rxm, ppc, perr, tecVars, readVars, newVars, serdeVars, mulVars, nmeaVars, dataVars, storeVars>>

----------------------------------------------------------------------------
(* Bytes and small helpers                                                 *)

SYNC1 == 181
SYNC2 == 98
U8 == 256

Byte == 0 .. (U8 - 1)

Max(S) == CHOOSE x \in S : \A y \in S : y <= x

RECURSIVE Pow2(_)
Pow2(n) == IF n = 0 THEN 1 ELSE 2 * Pow2(n - 1)

Bit(b, j) == (b \div Pow2(j)) % 2

FlipBit(b, j) == IF Bit(b, j) = 1 THEN b - Pow2(j) ELSE b + Pow2(j)

RECURSIVE Concat(_)
Concat(ss) == IF ss = <<>> THEN <<>> ELSE Head(ss) \o Concat(Tail(ss))

RECURSIVE SeqsUpTo(_, _)
SeqsUpTo(S, n) ==
    IF n = 0 THEN {<<>>}
    ELSE LET shorter == SeqsUpTo(S, n - 1)
         IN  shorter \cup {Append(s, x) : s \in {t \in shorter : Len(t) = n - 1}, x \in S}

Remove(s, from, to) == SubSeq(s, 1, from - 1) \o SubSeq(s, to + 1, Len(s))

----------------------------------------------------------------------------
(* rxm_checksum: the two running sums, each wrapping at 256                *)

RECURSIVE CkFold(_, _, _, _)
CkFold(b, i, ck_a, ck_b) ==
    IF i > Len(b) THEN <<ck_a, ck_b>>
    ELSE LET a == (ck_a + b[i]) % U8
         IN  CkFold(b, i + 1, a, (ck_b + a) % U8)

rxm_checksum(b) == CkFold(b, 1, 0, 0)

(* find_rxm_raw, the scan: the loop over every index keeps the LAST place  *)
(* where 0xB5 is followed by 0x62 (it does not stop at the first), and     *)
(* breaks on a 0xB5 that is the last byte. 0 stands for None.              *)
ScanSync(b, i, found) ==
    LET hits == {j \in i .. (Len(b) - 1) : b[j] = SYNC1 /\ b[j + 1] = SYNC2}
    IN  IF hits = {} THEN found ELSE CHOOSE j \in hits : \A h \in hits : h <= j

(* find_rxm_raw: Ok(abs_start, abs_end, class, id), an Err, or a panic on  *)
(* the read of buf[end + 1] when only the first checksum byte is there.    *)
(* at is the 1-based position of the sync pair (abs_start + 1), upto the   *)
(* 1-based position of the last byte of the frame (abs_end).               *)
find_rxm_raw(b) ==
    LET p == ScanSync(b, 1, 0)
        s == SubSeq(b, p + 2, Len(b))
    IN  IF p = 0 THEN [tag |-> "Err", err |-> "No UBX message found"]
        ELSE IF Len(s) < 4
        THEN [tag |-> "Err", err |-> "Insufficient data to get packet length"]
        ELSE LET length == s[3] + U8 * s[4]
                 end == length + 4
                 ck == rxm_checksum(SubSeq(s, 1, end))
             IN  IF end + 1 > Len(s)
                 THEN [tag |-> "Err", err |-> "Incomplete packet"]
                 ELSE IF ck[1] # s[end + 1]
                 THEN [tag |-> "Err", err |-> "Checksum mismatch"]
                 ELSE IF end + 2 > Len(s)
                 THEN [tag |-> "Panic", err |-> "index out of bounds"]
                 ELSE IF ck[2] # s[end + 2]
                 THEN [tag |-> "Err", err |-> "Checksum mismatch"]
                 ELSE [tag |-> "Ok", at |-> p, upto |-> (p - 1) + 2 + end + 2,
                       class |-> s[1], id |-> s[2]]

(* The UbxMessage split_ubx builds from the drained bytes: split_off(6)    *)
(* drops sync, class, id and length, the two pops drop the checksum.       *)
UbxMessage(class, id, drained) ==
    [class |-> class, id |-> id, payload |-> SubSeq(drained, 7, Len(drained) - 2)]

----------------------------------------------------------------------------
(* Input buffers. Frames are built with the wire format's checksum written *)
(* as the two closed sums (sum of the bytes; sum of the bytes weighted by  *)
(* their distance from the end), independently of rxm_checksum.            *)

MaxSegs == 3
MaxPayload == 2

RECURSIVE SumBytes(_, _)
SumBytes(b, i) == IF i > Len(b) THEN 0 ELSE b[i] + SumBytes(b, i + 1)

RECURSIVE SumWeighted(_, _)
SumWeighted(b, i) ==
    IF i > Len(b) THEN 0 ELSE (Len(b) - i + 1) * b[i] + SumWeighted(b, i + 1)

Fletcher8(b) == <<SumBytes(b, 1) % U8, SumWeighted(b, 1) % U8>>

FrameBody(c, i, p) == <<c, i, Len(p) % U8, Len(p) \div U8>> \o p

Frame(c, i, p) ==
    <<SYNC1, SYNC2>> \o FrameBody(c, i, p) \o Fletcher8(FrameBody(c, i, p))

(* A frame with its last k bytes removed, and with bit j of its first      *)
(* (which = 1) or second (which = 2) checksum byte flipped.                *)
Truncated(f, k) == SubSeq(f, 1, Len(f) - k)

Flipped(f, which, j) ==
    LET at == Len(f) - 2 + which
    IN  [f EXCEPT ![at] = FlipBit(f[at], j)]

TextBytes == {36, 10}
StrayBytes == {SYNC1, SYNC2}
FrameIds == {<<2, 21>>, <<5, 1>>}
PayloadBytes == {0, 1, SYNC2, SYNC1, 201}

FrameA == Frame(2, 21, <<>>)
FrameB == Frame(5, 1, <<7>>)
FrameC == Frame(2, 21, <<SYNC1, SYNC2>>)
SmallFrames == {FrameA, FrameB, FrameC}

(* Pieces of a mixed buffer: NMEA text bytes, stray sync bytes, whole      *)
(* frames, and malformed candidates (wrong checksum, truncated body,       *)
(* truncated header).                                                      *)
Pieces ==
    {<<t>> : t \in TextBytes \cup StrayBytes}
    \cup SmallFrames
    \cup {Flipped(FrameA, 2, 0), Truncated(FrameB, 1), Truncated(FrameB, 2),
          Truncated(FrameA, 5)}

MixedInputs == {Concat(ss) : ss \in SeqsUpTo(Pieces, MaxSegs)}

(* Single frames over every payload up to MaxPayload bytes, and payloads   *)
(* that carry the first six bytes of another frame (sync pair and header). *)
Payloads ==
    LET plain == SeqsUpTo(PayloadBytes, MaxPayload)
    IN  plain \cup {q \o <<SYNC1, SYNC2, id[1], id[2], 0, 0>> :
                        q \in plain, id \in FrameIds}

SingleFrames == {Frame(id[1], id[2], p) : id \in FrameIds, p \in Payloads}

AllFrames == SingleFrames \cup SmallFrames

TruncInputs == UNION {{Truncated(f, k) : k \in 1 .. Len(f)} : f \in AllFrames}

FlipInputs ==
    UNION {{Flipped(f, which, j) : which \in 1 .. 2, j \in 0 .. 7} : f \in AllFrames}

(* A frame f cut in two at position j with another whole frame g between.  *)
InterruptedInputs ==
    UNION {{SubSeq(f, 1, j) \o g \o SubSeq(f, j + 1, Len(f)) : j \in 1 .. (Len(f) - 1)} :
              f \in SmallFrames, g \in SmallFrames}

SplitInputs ==
    MixedInputs \cup SingleFrames \cup TruncInputs \cup FlipInputs
    \cup InterruptedInputs

----------------------------------------------------------------------------
(* split_ubx: one action per iteration of `while let Ok(..) = find_rxm_raw` *)

Identity(n) == [i \in 1 .. n |-> i]

SplitStart(b) ==
    /\ input = b
    /\ buf = b
    /\ messages = <<>>
    /\ origin = Identity(Len(b))
    /\ taken = <<>>
    /\ pc = "split"

(* find_rxm_raw returned Ok: drain(start..end), strip, push.               *)
SplitTake ==
    /\ pc = "split"
    /\ LET r == find_rxm_raw(buf)
       IN  /\ r.tag = "Ok"
           /\ buf' = Remove(buf, r.at, r.upto)
           /\ messages' = Append(messages,
                                 UbxMessage(r.class, r.id, SubSeq(buf, r.at, r.upto)))
           /\ origin' = Remove(origin, r.at, r.upto)
           /\ taken' = Append(taken, SubSeq(origin, r.at, r.upto))
    /\ UNCHANGED <<storeVars, dataVars, nmeaVars, mulVars, serdeVars, newVars, readVars, tecVars, input, pc, message, rx, rpc, checks, rxm, ppc, perr>>

(* find_rxm_raw returned Err: the loop ends, (messages, buf) is returned.  *)
SplitStop ==
    /\ pc = "split"
    /\ find_rxm_raw(buf).tag = "Err"
    /\ pc' = "done"
    /\ UNCHANGED <<storeVars, dataVars, nmeaVars, mulVars, serdeVars, newVars, readVars, tecVars, input, buf, messages, origin, taken, message, rx, rpc, checks,
                   rxm, ppc, perr>>

(* find_rxm_raw indexed past the end of the buffer: the call unwinds.      *)
SplitPanic ==
    /\ pc = "split"
    /\ find_rxm_raw(buf).tag = "Panic"
    /\ pc' = "panic"
    /\ UNCHANGED <<storeVars, dataVars, nmeaVars, mulVars, serdeVars, newVars, readVars, tecVars, input, buf, messages, origin, taken, message, rx, rpc, checks,
                   rxm, ppc, perr>>

NoMessage == [class |-> 0, id |-> 0, payload |-> <<>>]

RawxIdle == message = NoMessage /\ rx = <<>> /\ rpc = "idle"
ParseIdle == rxm = <<>> /\ ppc = "idle" /\ perr = ""
TecIdle == src = <<>> /\ decoded = FALSE /\ todo = {} /\ tec = <<>> /\ tpc = "idle"
ReadIdle ==
    /\ stream = <<>> /\ upstream = <<>> /\ until = <<>> /\ ubuf = <<>> /\ uread = 0
    /\ dst = <<>> /\ nread = 0 /\ results = <<>> /\ upc = "off"

NewIdle == nmea = <<>> /\ new_rxm = <<>> /\ gpsinfo = <<>>

SerdeIdle == satellite = <<>> /\ json = <<>> /\ restored = <<>> /\ jpc = "idle"

MulIdle == lhs = <<>> /\ rhs = <<>> /\ product = <<>>

NmeaIdle == text = <<>> /\ gpsmsg = <<>> /\ created = <<>> /\ npc = "idle"

DataIdle == buffers = <<>> /\ handed = <<>> /\ dpc = "idle"

StoreIdle ==
    /\ cfg = <<>> /\ COMPRESSION_THREAD_TX = <<>> /\ mpsc = <<>>
    /\ compressor = "none" /\ last_dir = <<>>
    /\ dirs = {} /\ files = {} /\ tarballs = {}
    /\ sent = <<>> /\ received = <<>> /\ nwrites = 0

InitSplit ==
    /\ \E b \in SplitInputs : SplitStart(b)
    /\ RawxIdle
    /\ ParseIdle
    /\ TecIdle
    /\ ReadIdle
    /\ NewIdle
    /\ SerdeIdle
    /\ MulIdle
    /\ NmeaIdle
    /\ DataIdle
    /\ StoreIdle
    /\ checks = TRUE

NextSplit == SplitTake \/ SplitStop \/ SplitPanic

SpecSplit == InitSplit /\ [][NextSplit]_vars

----------------------------------------------------------------------------
(* Properties of split_ubx                                                 *)

(* b holds a well-formed frame at position p: sync pair, header, the       *)
(* declared number of payload bytes and the two checksum bytes of the      *)
(* header and payload.                                                     *)
FrameLenAt(b, p) == b[p + 4] + U8 * b[p + 5] + 8

WellFormedAt(b, p) ==
    /\ p + 7 <= Len(b)
    /\ b[p] = SYNC1 /\ b[p + 1] = SYNC2
    /\ p + FrameLenAt(b, p) - 1 <= Len(b)
    /\ Fletcher8(SubSeq(b, p + 2, p + FrameLenAt(b, p) - 3))
         = SubSeq(b, p + FrameLenAt(b, p) - 2, p + FrameLenAt(b, p) - 1)

IsFrame(b) == WellFormedAt(b, 1) /\ FrameLenAt(b, 1) = Len(b)

SyncAt(b, p) == p + 1 <= Len(b) /\ b[p] = SYNC1 /\ b[p + 1] = SYNC2

(* A well-formed frame that shares no byte with another candidate: no      *)
(* other sync pair lies inside it, and it does not lie inside another      *)
(* well-formed frame.                                                      *)
Standalone(b, p) ==
    /\ WellFormedAt(b, p)
    /\ \A q \in (p + 1) .. (p + FrameLenAt(b, p) - 1) : ~SyncAt(b, q)
    /\ \A q \in 1 .. (p - 1) :
          WellFormedAt(b, q) => q + FrameLenAt(b, q) - 1 < p

Range(a, n) == [i \in 1 .. n |-> a + i - 1]

InputAt(ix) == [i \in 1 .. Len(ix) |-> input[ix[i]]]

RECURSIVE FrameBytes(_)
FrameBytes(ms) ==
    IF ms = <<>> THEN 0 ELSE Len(Head(ms).payload) + 8 + FrameBytes(Tail(ms))

(* C1: the frames split_ubx returns are in the order of their start        *)
(* offsets in the input buffer.                                            *)
C1_FrameOrder ==
    pc = "done" =>
        \A a, b \in 1 .. Len(taken) : a < b => taken[a][1] < taken[b][1]

(* C2: every well-formed frame of the buffer is returned, whatever         *)
(* malformed candidates (truncated header, truncated body, wrong           *)
(* checksum) stand before or after it.                                     *)
C2_ValidFramesSurface ==
    pc = "done" =>
        \A p \in 1 .. Len(input) :
            Standalone(input, p) =>
                \E k \in 1 .. Len(taken) : taken[k] = Range(p, FrameLenAt(input, p))

(* C3: a buffer that is exactly one frame, B5 62 class id len payload and  *)
(* its Fletcher-8 checksum, yields that one frame and an empty residual.   *)
C3_RoundTrip ==
    (IsFrame(input) /\ pc # "split") =>
        /\ pc = "done"
        /\ messages = <<[class |-> input[3], id |-> input[4],
                         payload |-> SubSeq(input, 7, Len(input) - 2)]>>
        /\ buf = <<>>

(* C4: a frame with its last k >= 1 bytes removed yields no frame and the  *)
(* whole truncated input as residual, and the call returns normally.       *)
C4_TruncatedKept ==
    (input \in TruncInputs /\ pc # "split") =>
        /\ pc = "done"
        /\ messages = <<>>
        /\ buf = input

(* C5: every returned frame carries the Fletcher-8 checksum of its class,  *)
(* id, length and payload in its last two bytes; and a single frame with   *)
(* one bit of either checksum byte flipped yields no frame.                *)
C5_ChecksumMatches ==
    /\ \A k \in 1 .. Len(messages) :
          LET m == messages[k]
              raw == InputAt(taken[k])
          IN  Fletcher8(FrameBody(m.class, m.id, m.payload))
                = SubSeq(raw, Len(raw) - 1, Len(raw))
    /\ (input \in FlipInputs /\ pc # "split") => (pc = "done" /\ messages = <<>>)

(* C6: the residual is the input with the byte ranges of the returned      *)
(* frames removed and every other byte kept in order; nothing is removed   *)
(* when no frame validates; the lengths add up.                            *)
C6_ResidualIsInputMinusFrames ==
    pc = "done" =>
        /\ \A k \in 1 .. Len(taken) :
              /\ taken[k] = Range(taken[k][1], Len(messages[k].payload) + 8)
              /\ InputAt(taken[k])[1] = SYNC1 /\ InputAt(taken[k])[2] = SYNC2
              /\ UbxMessage(InputAt(taken[k])[3], InputAt(taken[k])[4], InputAt(taken[k]))
                   = messages[k]
        /\ \A i \in 1 .. (Len(origin) - 1) : origin[i] < origin[i + 1]
        /\ buf = InputAt(origin)
        /\ \A i \in 1 .. Len(input) :
              (\E j \in 1 .. Len(origin) : origin[j] = i)
                  \/ (\E k \in 1 .. Len(taken) : \E j \in 1 .. Len(taken[k]) : taken[k][j] = i)
        /\ Len(input) = Len(buf) + FrameBytes(messages)
        /\ (messages = <<>> => buf = input)

----------------------------------------------------------------------------
(* The satellite and channel taxonomy                                      *)

I8(b) == IF b >= 128 THEN b - U8 ELSE b

(* GnssSatellite::from_ubx: any other gnssId reaches unreachable!().       *)
from_ubx(cls, svid) ==
    CASE cls = 0 -> [tag |-> "Ok", sat |-> [cons |-> "Gps", id |-> svid]]
      [] cls = 1 -> [tag |-> "Ok", sat |-> [cons |-> "Sbas", id |-> svid]]
      [] cls = 2 -> [tag |-> "Ok", sat |-> [cons |-> "Galileo", id |-> svid]]
      [] cls = 3 -> [tag |-> "Ok", sat |-> [cons |-> "Beidou", id |-> svid]]
      [] cls = 5 -> [tag |-> "Ok", sat |-> [cons |-> "Qzss", id |-> svid]]
      [] cls = 6 -> [tag |-> "Ok", sat |-> [cons |-> "Glonass", id |-> svid]]
      [] OTHER -> [tag |-> "Panic", err |-> "unreachable"]

Chan(sys, band, k) == [tag |-> "Ok", freq |-> [sys |-> sys, band |-> band, k |-> k]]

GpsFreqTryFrom(v) ==
    CASE v = 0 -> Chan("Gps", "L1CA", 0)
      [] v = 3 -> Chan("Gps", "L2CL", 0)
      [] v = 4 -> Chan("Gps", "L2CM", 0)
      [] v \in {6, 7} -> Chan("Gps", "L5", 0)
      [] OTHER -> [tag |-> "Err", err |-> "Invalid GPS frequency ID"]

GalileoFreqTryFrom(v) ==
    CASE v = 0 -> Chan("Galileo", "E1C", 0)
      [] v = 1 -> Chan("Galileo", "E1B", 0)
      [] v = 3 -> Chan("Galileo", "E5aI", 0)
      [] v = 4 -> Chan("Galileo", "E5aQ", 0)
      [] v = 5 -> Chan("Galileo", "E5bI", 0)
      [] v = 6 -> Chan("Galileo", "E5bQ", 0)
      [] OTHER -> [tag |-> "Err", err |-> "Invalid Galileo frequency ID"]

BeidouFreqTryFrom(v) ==
    CASE v = 0 -> Chan("Beidou", "B1I_D1", 0)
      [] v = 1 -> Chan("Beidou", "B1I_D2", 0)
      [] v = 2 -> Chan("Beidou", "B2I_D1", 0)
      [] v = 3 -> Chan("Beidou", "B2I_D2", 0)
      [] v = 7 -> Chan("Beidou", "B2A", 0)
      [] OTHER -> [tag |-> "Err", err |-> "Invalid Beidou frequency ID"]

GlonassFreqTryFrom(v, channel) ==
    CASE v = 0 -> Chan("Glonass", "L1OF", channel)
      [] v = 2 -> Chan("Glonass", "L2OF", channel)
      [] OTHER -> [tag |-> "Err", err |-> "Invalid Glonass frequency ID"]

QzssFreqTryFrom(v) ==
    CASE v = 0 -> Chan("Qzss", "L1CA", 0)
      [] v = 1 -> Chan("Qzss", "L1S", 0)
      [] v = 4 -> Chan("Qzss", "L2CM", 0)
      [] v = 5 -> Chan("Qzss", "L2CL", 0)
      [] v \in {7, 8} -> Chan("Qzss", "L5", 0)
      [] OTHER -> [tag |-> "Err", err |-> "Invalid QZSS frequency ID"]

(* Frequency::get_freq, in Hz. Every table value and every Glonass slot    *)
(* frequency is a whole number of Hz, exact in f64.                        *)
get_freq(ch) ==
    CASE ch.sys = "Gps" ->
           (CASE ch.band = "L1CA" -> 1575420000
              [] ch.band \in {"L2CL", "L2CM"} -> 1227600000
              [] ch.band = "L5" -> 1176450000)
      [] ch.sys = "Galileo" ->
           (CASE ch.band \in {"E1C", "E1B"} -> 1575420000
              [] ch.band \in {"E5aI", "E5aQ"} -> 1176450000
              [] ch.band \in {"E5bI", "E5bQ"} -> 1207140000)
      [] ch.sys = "Beidou" ->
           (CASE ch.band \in {"B1I_D1", "B1I_D2"} -> 1561098000
              [] ch.band \in {"B2I_D1", "B2I_D2"} -> 1207140000
              [] ch.band = "B2A" -> 1176450000)
      [] ch.sys = "Glonass" ->
           (CASE ch.band = "L1OF" -> 1602000000 + 562500 * ch.k
              [] ch.band = "L2OF" -> 1246000000 + 437500 * ch.k)
      [] ch.sys = "Qzss" ->
           (CASE ch.band \in {"L1CA", "L1S"} -> 1575420000
              [] ch.band \in {"L2CM", "L2CL"} -> 1227600000
              [] ch.band = "L5" -> 1176450000)

(* parse_sat_ids: the satellite first (which may panic), then the channel  *)
(* by the satellite's constellation; Sbas uses the GPS table.              *)
parse_sat_ids(gnss_id, sat_id, sig_id, glonass) ==
    LET s == from_ubx(gnss_id, sat_id)
    IN  IF s.tag = "Panic" THEN s
        ELSE LET f == CASE s.sat.cons \in {"Gps", "Sbas"} -> GpsFreqTryFrom(sig_id)
                        [] s.sat.cons = "Galileo" -> GalileoFreqTryFrom(sig_id)
                        [] s.sat.cons = "Beidou" -> BeidouFreqTryFrom(sig_id)
                        [] s.sat.cons = "Qzss" -> QzssFreqTryFrom(sig_id)
                        [] s.sat.cons = "Glonass" -> GlonassFreqTryFrom(sig_id, glonass)
             IN  IF f.tag = "Err" THEN f
                 ELSE [tag |-> "Ok", sat |-> s.sat, freq |-> f.freq]

----------------------------------------------------------------------------
(* Number decoding                                                         *)

U16FromLe(b) == b[1] + U8 * b[2]

(* f64::from_le_bytes, as the IEEE-754 fields: sign, biased exponent, the  *)
(* top 20 bits of the fraction (hi) and its low 32 bits as bytes (lo).     *)
F64FromLe(b) ==
    [neg |-> b[8] \div 128,
     exp |-> (b[8] % 128) * 16 + b[7] \div 16,
     hi  |-> (b[7] % 16) * 65536 + b[6] * U8 + b[5],
     lo  |-> SubSeq(b, 1, 4)]

(* f32::from_le_bytes, as sign, biased exponent and 23-bit fraction.       *)
F32FromLe(b) ==
    [neg |-> b[4] \div 128,
     exp |-> (b[4] % 128) * 2 + b[3] \div 128,
     man |-> (b[3] % 128) * 65536 + b[2] * U8 + b[1]]

F64IsZero(x) == x.exp = 0 /\ x.hi = 0 /\ x.lo = <<0, 0, 0, 0>>

(* 2i32.pow(n): up to 2^30 it is exact; from 2^31 on it overflows i32,     *)
(* which panics with overflow checks on and wraps without them (2^31 to    *)
(* i32::MIN, 2^32 and beyond to 0).                                        *)
I32Pow2(n, chk) ==
    IF n <= 30 THEN [tag |-> "Ok", v |-> Pow2(n)]
    ELSE IF chk THEN [tag |-> "Panic", err |-> "attempt to multiply with overflow"]
    ELSE IF n = 31 THEN [tag |-> "Ok", v |-> -Pow2(30) - Pow2(30)]
    ELSE [tag |-> "Ok", v |-> 0]

(* Duration::from_secs_f64: panics on a negative value and on NaN,         *)
(* infinity or 2^64 seconds and more. The value is whole seconds and       *)
(* milliseconds; from 2^30 seconds on only the magnitude is kept (big,     *)
(* with the binary exponent e and fraction bits hi). Inputs have lo = 0.   *)
DurationFromSecsF64(x) ==
    LET e == x.exp - 1023
        m == 1048576 + x.hi
    IN  IF F64IsZero(x) THEN [tag |-> "Ok", big |-> FALSE, secs |-> 0, ms |-> 0]
        ELSE IF x.neg = 1 \/ e >= 64
        THEN [tag |-> "Panic", err |-> "can not convert float seconds to Duration"]
        ELSE IF x.exp = 0 \/ e < -10
        THEN [tag |-> "Ok", big |-> FALSE, secs |-> 0, ms |-> 0]
        ELSE IF e >= 30 THEN [tag |-> "Ok", big |-> TRUE, e |-> e, hi |-> x.hi]
        ELSE IF e >= 20
        THEN [tag |-> "Ok", big |-> FALSE, secs |-> m * Pow2(e - 20), ms |-> 0]
        ELSE [tag |-> "Ok", big |-> FALSE, secs |-> m \div Pow2(20 - e),
              ms |-> ((m % Pow2(20 - e)) * 1000) \div Pow2(20 - e)]

(* Lines 510-515: weeks(week) + (from_secs_f64(tow) + from_secs(leap as    *)
(* u64)) added to GPS_EPOCH. A negative leap second becomes 2^64 + leap    *)
(* as u64: adding it overflows Duration (panic) once tow has -leap whole   *)
(* seconds, and is out of TimeDelta's range (Err) otherwise. A duration    *)
(* beyond i64::MAX milliseconds is an Err of from_std; one of 2^43         *)
(* seconds or more overflows DateTime + TimeDelta (panic). The timestamp   *)
(* is kept as its offset from GPS_EPOCH: weeks, seconds, milliseconds.     *)
HeaderTime(payload) ==
    LET time_of_week == F64FromLe(SubSeq(payload, 1, 8))
        week == U16FromLe(SubSeq(payload, 9, 10))
        leap_second == I8(payload[11])
        d == DurationFromSecsF64(time_of_week)
    IN  IF d.tag = "Panic" THEN d
        ELSE IF leap_second < 0
        THEN IF d.big \/ d.secs >= -leap_second
             THEN [tag |-> "Panic", err |-> "overflow when adding durations"]
             ELSE [tag |-> "Err", err |-> "Failed to convert duration to time delta"]
        ELSE IF d.big
        THEN IF d.e >= 54 \/ (d.e = 53 /\ d.hi > 25165)
             THEN [tag |-> "Err", err |-> "Failed to convert duration to time delta"]
             ELSE IF d.e >= 43
             THEN [tag |-> "Panic", err |-> "DateTime + TimeDelta overflowed"]
             ELSE [tag |-> "Ok",
                   timestamp |-> [week |-> week, big |-> TRUE, e |-> d.e, hi |-> d.hi]]
        ELSE [tag |-> "Ok",
              timestamp |-> [week |-> week, big |-> FALSE,
                             secs |-> d.secs + leap_second, ms |-> d.ms]]

----------------------------------------------------------------------------
(* UbxRxmRawx::from_message                                                *)

RAWX_CLASS == 2
RAWX_ID == 21
HEADER_LEN == 16
RECORD_LEN == 32

None == <<>>
Some(v) == v

pr_valid(trk_stat) == Bit(trk_stat, 0) = 1
cp_valid(trk_stat) == Bit(trk_stat, 1) = 1

EmptyMap == [s \in {} |-> <<>>]

(* Lines 478-519: the class, id and length checks, the measurement count   *)
(* compared as u8, and the header fields.                                  *)
RawxCheck(m) ==
    IF m.class # RAWX_CLASS
    THEN [tag |-> "Err", err |-> "Invalid UBX message class"]
    ELSE IF m.id # RAWX_ID
    THEN [tag |-> "Err", err |-> "Invalid UBX message ID"]
    ELSE IF Len(m.payload) < HEADER_LEN
    THEN [tag |-> "Err", err |-> "Invalid UBX message length, malformed message"]
    ELSE LET num_mes == (Len(m.payload) - HEADER_LEN) \div RECORD_LEN
         IN  IF m.payload[12] # num_mes % U8
             THEN [tag |-> "Err",
                   err |-> "Invalid number of measurements, malformed message"]
             ELSE LET t == HeaderTime(m.payload)
                  IN  IF t.tag # "Ok" THEN t
                      ELSE [tag |-> "Ok",
                            st |-> [i |-> 0, num |-> num_mes,
                                    msg |-> [timestamp |-> t.timestamp,
                                             receiver_status |-> m.payload[13],
                                             version |-> m.payload[14],
                                             meas |-> EmptyMap]]]

(* v.sort_by(frequency ascending), a stable sort, as insertion after the   *)
(* elements that compare less or equal.                                    *)
RECURSIVE InsertAsc(_, _)
InsertAsc(sorted, x) ==
    IF sorted = <<>> THEN <<x>>
    ELSE IF get_freq(Head(sorted).channel) <= get_freq(x.channel)
         THEN <<Head(sorted)>> \o InsertAsc(Tail(sorted), x)
         ELSE <<x>> \o sorted

RECURSIVE SortAsc(_, _)
SortAsc(v, acc) == IF v = <<>> THEN acc ELSE SortAsc(Tail(v), InsertAsc(acc, Head(v)))

Reverse(v) == [i \in 1 .. Len(v) |-> v[Len(v) + 1 - i]]

SortMeasAscending(v) == SortAsc(v, <<>>)

(* Lines 587-593: sort_by ascending, then reverse.                         *)
SortMeas(v) == Reverse(SortAsc(v, <<>>))

(* Lines 578-585: the entry of the satellite gets the measurement pushed.  *)
MapPush(meas, sat, mes) ==
    IF sat \in DOMAIN meas
    THEN [meas EXCEPT ![sat] = Append(@, mes)]
    ELSE [s \in DOMAIN meas \cup {sat} |-> IF s = sat THEN <<mes>> ELSE meas[s]]

(* Lines 528-577: the CarrierMeas of the record at 0-based offset start.   *)
(* Both the pseudo-range and the carrier phase are gated by cp_valid.      *)
(* Standard deviations are kept as the integer factor of their unit:       *)
(* 0.01 m, 0.004 cycles, 0.002 Hz.                                         *)
DecodeMeas(payload, start, freq, chk) ==
    LET trk_stat == payload[start + 31]
        pr_pow == I32Pow2(payload[start + 28], chk)
        do_pow == I32Pow2(payload[start + 30], chk)
    IN  IF cp_valid(trk_stat) /\ pr_pow.tag = "Panic" THEN pr_pow
        ELSE IF do_pow.tag = "Panic" THEN do_pow
        ELSE [tag |-> "Ok",
              mes |-> [channel |-> freq,
                       pseudo_range |->
                           IF cp_valid(trk_stat)
                           THEN Some(<<F64FromLe(SubSeq(payload, start + 1, start + 8)),
                                       pr_pow.v>>)
                           ELSE None,
                       carrier_phase |->
                           IF cp_valid(trk_stat)
                           THEN Some(<<F64FromLe(SubSeq(payload, start + 9, start + 16)),
                                       payload[start + 29]>>)
                           ELSE None,
                       doppler |-> <<F32FromLe(SubSeq(payload, start + 17, start + 20)),
                                     do_pow.v>>,
                       locktime |-> U16FromLe(SubSeq(payload, start + 25, start + 26)),
                       carrier_snr |-> payload[start + 27],
                       trk_stat |-> trk_stat]]

(* An iteration whose taxonomy error arm ends the call instead of         *)
(* continuing with the next record.                                        *)
RawxRecordAbortOnErr(m, st, chk) ==
    LET start == HEADER_LEN + st.i * RECORD_LEN
        ids == parse_sat_ids(m.payload[start + 21], m.payload[start + 22],
                             m.payload[start + 23], I8(m.payload[start + 24]))
    IN  IF ids.tag # "Ok" THEN [tag |-> "Panic", err |-> ids.tag]
        ELSE LET d == DecodeMeas(m.payload, start, ids.freq, chk)
             IN  IF d.tag = "Panic" THEN d
                 ELSE LET pushed == MapPush(st.msg.meas, ids.sat, d.mes)
                      IN  [tag |-> "Ok", out |-> "pushed",
                           st |-> [st EXCEPT !.i = @ + 1,
                                             !.msg.meas =
                                                 [t \in DOMAIN pushed |-> SortMeas(pushed[t])]]]

(* Lines 520-601: one iteration of `for i in 0..num_mes`. out is "pushed"  *)
(* or "skipped" (the taxonomy error arm, which continues).                 *)
RawxRecord(m, st, chk) ==
    LET start == HEADER_LEN + st.i * RECORD_LEN
        ids == parse_sat_ids(m.payload[start + 21], m.payload[start + 22],
                             m.payload[start + 23], I8(m.payload[start + 24]))
    IN  IF ids.tag = "Panic" THEN ids
        ELSE IF ids.tag = "Err"
        THEN [tag |-> "Ok", out |-> "skipped", st |-> [st EXCEPT !.i = @ + 1]]
        ELSE LET d == DecodeMeas(m.payload, start, ids.freq, chk)
             IN  IF d.tag = "Panic" THEN d
                 ELSE LET pushed == MapPush(st.msg.meas, ids.sat, d.mes)
                      IN  [tag |-> "Ok", out |-> "pushed",
                           st |-> [st EXCEPT !.i = @ + 1,
                                             !.msg.meas =
                                                 [s \in DOMAIN pushed |-> SortMeas(pushed[s])]]]

RECURSIVE RawxLoop(_, _, _)
RawxLoop(m, st, chk) ==
    IF st.i >= st.num THEN [tag |-> "Ok", msg |-> st.msg]
    ELSE LET r == RawxRecord(m, st, chk)
         IN  IF r.tag = "Panic" THEN r ELSE RawxLoop(m, r.st, chk)

(* The whole call, as parse_messages uses it.                              *)
from_message(m, chk) ==
    LET c == RawxCheck(m)
    IN  IF c.tag # "Ok" THEN c ELSE RawxLoop(m, c.st, chk)

----------------------------------------------------------------------------
(* RXM-RAWX payloads                                                       *)

MaxRecs == 2

(* IEEE-754 little-endian byte patterns.                                   *)
F64_Zero == <<0, 0, 0, 0, 0, 0, 0, 0>>
F64_1p5 == <<0, 0, 0, 0, 0, 0, 248, 63>>
F64_345600 == <<0, 0, 0, 0, 0, 24, 21, 65>>
F64_Minus1 == <<0, 0, 0, 0, 0, 0, 240, 191>>
F64_NaN == <<0, 0, 0, 0, 0, 0, 248, 127>>
F64_2p35 == <<0, 0, 0, 0, 0, 0, 32, 66>>
F64_2p44 == <<0, 0, 0, 0, 0, 0, 176, 66>>
F64_2p60 == <<0, 0, 0, 0, 0, 0, 176, 67>>
F64_2p70 == <<0, 0, 0, 0, 0, 0, 80, 68>>
F64_2p24 == <<0, 0, 0, 0, 0, 0, 112, 65>>
F64_1e8 == <<0, 0, 0, 0, 132, 215, 151, 65>>
F64_15e7 == <<0, 0, 0, 0, 163, 225, 161, 65>>
F32_1234p5 == <<0, 80, 154, 68>>

TowPatterns ==
    {F64_Zero, F64_1p5, F64_345600, F64_Minus1, F64_NaN, F64_2p35, F64_2p44,
     F64_2p60, F64_2p70}

LeapBytes == {18, 0, 255, 238}

EncodeHeader(tow, week, leap, num, stat, version) ==
    tow \o <<week % U8, week \div U8, leap, num, stat, version, 0, 0>>

EncodeRecord(r) ==
    r.pr \o r.cp \o r.dop
    \o <<r.gnss, r.sv, r.sig, r.fid, r.lock % U8, r.lock \div U8, r.cno,
         r.prStd, r.cpStd, r.doStd, r.trk, 0>>

BaseRec ==
    [pr |-> F64_2p24, cp |-> F64_1e8, dop |-> F32_1234p5, gnss |-> 0, sv |-> 1,
     sig |-> 0, fid |-> 0, lock |-> 64500, cno |-> 42, prStd |-> 5, cpStd |-> 3,
     doStd |-> 7, trk |-> 3]

(* (gnssId, svId, sigId, freqId): GPS 1 on L1CA, L2CL, L2CM, L5; GPS 2;    *)
(* Glonass 1 on L1OF and L2OF in slot -3; Galileo 1 on E5bI; a sigId GPS   *)
(* does not have; a gnssId that is no constellation; Glonass 2 with the    *)
(* freqId bytes 7 and 128.                                                 *)
IdChoices ==
    {<<0, 1, 0, 0>>, <<0, 1, 3, 0>>, <<0, 1, 4, 0>>, <<0, 1, 6, 0>>, <<0, 2, 0, 0>>,
     <<6, 1, 0, 253>>, <<6, 1, 2, 253>>, <<2, 1, 5, 0>>, <<0, 1, 9, 0>>, <<4, 1, 0, 0>>,
     <<6, 2, 0, 7>>, <<6, 2, 2, 128>>}

RecordSet ==
    {[BaseRec EXCEPT !.gnss = id[1], !.sv = id[2], !.sig = id[3], !.fid = id[4]] :
        id \in IdChoices}
    \cup {[BaseRec EXCEPT !.trk = t] : t \in 0 .. 3}
    \cup {[BaseRec EXCEPT !.prStd = n] : n \in {31, 32}}
    \cup {[BaseRec EXCEPT !.doStd = 31],
          [BaseRec EXCEPT !.prStd = 31, !.trk = 1],
          [BaseRec EXCEPT !.cp = F64_15e7, !.sig = 3, !.trk = 2]}

DropRec == [BaseRec EXCEPT !.sig = 9]

EncodeRecords(rs) == Concat([i \in 1 .. Len(rs) |-> EncodeRecord(rs[i])])

Tile(bytes, n) == [i \in 1 .. n * Len(bytes) |-> bytes[((i - 1) % Len(bytes)) + 1]]

BasePayload(rs) == EncodeHeader(F64_345600, 2334, 18, Len(rs) % U8, 1, 1) \o EncodeRecords(rs)

RawxMsg(payload) == [class |-> RAWX_CLASS, id |-> RAWX_ID, payload |-> payload]

(* Every list of up to MaxRecs records under the base header.              *)
RecordInputs == {RawxMsg(BasePayload(rs)) : rs \in SeqsUpTo(RecordSet, MaxRecs)}

(* Every time of week and leap second with no record and with one.         *)
HeaderInputs ==
    {RawxMsg(EncodeHeader(tow, 2334, leap, Len(rs), 1, 1) \o EncodeRecords(rs)) :
        tow \in TowPatterns, leap \in LeapBytes, rs \in {<<>>, <<BaseRec>>}}

(* Wrong class, wrong id, a payload shorter than the header, a declared    *)
(* count one too many or one too few, bytes after the last whole record.   *)
MalformedInputs ==
    {[class |-> 5, id |-> RAWX_ID, payload |-> BasePayload(<<BaseRec>>)],
     [class |-> RAWX_CLASS, id |-> 20, payload |-> BasePayload(<<BaseRec>>)],
     RawxMsg(SubSeq(BasePayload(<<>>), 1, HEADER_LEN - 1)),
     RawxMsg(<<>>),
     RawxMsg(EncodeHeader(F64_345600, 2334, 18, 2, 1, 1) \o EncodeRecords(<<BaseRec>>)),
     RawxMsg(EncodeHeader(F64_345600, 2334, 18, 0, 1, 1) \o EncodeRecords(<<BaseRec>>)),
     RawxMsg(BasePayload(<<BaseRec>>) \o <<1, 2, 3, 4, 5>>)}

(* U8 records and more: the record count no longer fits the count byte.    *)
LongInputs ==
    {RawxMsg(EncodeHeader(F64_345600, 2334, 18, num, 1, 1)
             \o Tile(EncodeRecord(DropRec), n)) :
        <<num, n>> \in {<<0, U8>>, <<1, U8 + 1>>, <<255, U8>>}}

RawxInputs == RecordInputs \cup HeaderInputs \cup MalformedInputs \cup LongInputs

----------------------------------------------------------------------------
(* from_message, step by step                                              *)

RawxStart(m) == message = m /\ rx = <<>> /\ rpc = "check"

SplitIdle ==
    /\ input = <<>> /\ buf = <<>> /\ messages = <<>> /\ origin = <<>> /\ taken = <<>>
    /\ pc = "idle"

(* One of the early returns of lines 478-513.                              *)
RawxReject ==
    /\ rpc = "check"
    /\ RawxCheck(message).tag = "Err"
    /\ rpc' = "err"
    /\ UNCHANGED <<storeVars, dataVars, nmeaVars, mulVars, serdeVars, newVars, readVars, tecVars, input, buf, messages, origin, taken, pc, message, rx, checks,
                   rxm, ppc, perr>>

(* A panic of the time arithmetic of lines 512-515.                        *)
RawxHeaderPanic ==
    /\ rpc = "check"
    /\ RawxCheck(message).tag = "Panic"
    /\ rpc' = "panic"
    /\ UNCHANGED <<storeVars, dataVars, nmeaVars, mulVars, serdeVars, newVars, readVars, tecVars, input, buf, messages, origin, taken, pc, message, rx, checks,
                   rxm, ppc, perr>>

(* The header is accepted and msg is built with no measurement yet.        *)
RawxAccept ==
    /\ rpc = "check"
    /\ RawxCheck(message).tag = "Ok"
    /\ rx' = RawxCheck(message).st
    /\ rpc' = "records"
    /\ UNCHANGED <<storeVars, dataVars, nmeaVars, mulVars, serdeVars, newVars, readVars, tecVars, input, buf, messages, origin, taken, pc, message, checks,
                   rxm, ppc, perr>>

(* An iteration that pushes a measurement and sorts every list.            *)
RawxPush ==
    /\ rpc = "records"
    /\ rx.i < rx.num
    /\ LET r == RawxRecord(message, rx, checks)
       IN  r.tag = "Ok" /\ r.out = "pushed" /\ rx' = r.st
    /\ UNCHANGED <<storeVars, dataVars, nmeaVars, mulVars, serdeVars, newVars, readVars, tecVars, input, buf, messages, origin, taken, pc, message, rpc, checks,
                   rxm, ppc, perr>>

(* An iteration that drops a record whose channel is not recognised.       *)
RawxSkip ==
    /\ rpc = "records"
    /\ rx.i < rx.num
    /\ LET r == RawxRecord(message, rx, checks)
       IN  r.tag = "Ok" /\ r.out = "skipped" /\ rx' = r.st
    /\ UNCHANGED <<storeVars, dataVars, nmeaVars, mulVars, serdeVars, newVars, readVars, tecVars, input, buf, messages, origin, taken, pc, message, rpc, checks,
                   rxm, ppc, perr>>

(* An iteration that panics: unreachable!() of from_ubx, or 2i32.pow.      *)
RawxRecordPanic ==
    /\ rpc = "records"
    /\ rx.i < rx.num
    /\ RawxRecord(message, rx, checks).tag = "Panic"
    /\ rpc' = "panic"
    /\ UNCHANGED <<storeVars, dataVars, nmeaVars, mulVars, serdeVars, newVars, readVars, tecVars, input, buf, messages, origin, taken, pc, message, rx, checks,
                   rxm, ppc, perr>>

(* The loop is over: Ok(msg).                                              *)
RawxFinish ==
    /\ rpc = "records"
    /\ rx.i >= rx.num
    /\ rpc' = "ok"
    /\ UNCHANGED <<storeVars, dataVars, nmeaVars, mulVars, serdeVars, newVars, readVars, tecVars, input, buf, messages, origin, taken, pc, message, rx, checks,
                   rxm, ppc, perr>>

InitRawx ==
    /\ \E m \in RawxInputs : RawxStart(m)
    /\ checks \in BOOLEAN
    /\ SplitIdle
    /\ ParseIdle
    /\ TecIdle
    /\ ReadIdle
    /\ NewIdle
    /\ SerdeIdle
    /\ MulIdle
    /\ NmeaIdle
    /\ DataIdle
    /\ StoreIdle

NextRawx ==
    \/ RawxReject \/ RawxHeaderPanic \/ RawxAccept
    \/ RawxPush \/ RawxSkip \/ RawxRecordPanic \/ RawxFinish

SpecRawx == InitRawx /\ [][NextRawx]_vars

(* Accepted: the checks of lines 478-494 all passed.                       *)
RawxAccepted == rpc \in {"records", "ok"}

(* The measurement of record i (0-based) of the payload, as the record     *)
(* layout defines it, and the satellite it belongs to.                     *)
RecordStart(i) == HEADER_LEN + i * RECORD_LEN

RecordIds(i) ==
    parse_sat_ids(message.payload[RecordStart(i) + 21], message.payload[RecordStart(i) + 22],
                  message.payload[RecordStart(i) + 23],
                  I8(message.payload[RecordStart(i) + 24]))

RecordMeas(i) == DecodeMeas(message.payload, RecordStart(i), RecordIds(i).freq, checks).mes

(* The records among the first n that decode to a measurement of sat.      *)
DecodableFor(sat, n) ==
    {i \in 0 .. (n - 1) : RecordIds(i).tag = "Ok" /\ RecordIds(i).sat = sat}

Occurrences(list, x) == Cardinality({k \in 1 .. Len(list) : list[k] = x})

AllMeas == UNION {{rx.msg.meas[s][k] : k \in 1 .. Len(rx.msg.meas[s])} : s \in DOMAIN rx.msg.meas}

(* C8: in every CarrierMeas the decoder produces, the pseudo-range is      *)
(* present iff bit 0 (pr_valid) of trkStat is set and the carrier phase is *)
(* present iff bit 1 (cp_valid) of trkStat is set.                         *)
C8_ValidityBits ==
    RawxAccepted =>
        \A mes \in AllMeas :
            /\ (mes.pseudo_range # None) <=> pr_valid(mes.trk_stat)
            /\ (mes.carrier_phase # None) <=> cp_valid(mes.trk_stat)

(* C9: while the records are decoded and after from_message succeeds,      *)
(* every satellite's list is ordered by carrier frequency descending, and  *)
(* holds every measurement decoded so far for that satellite exactly as    *)
(* many times as the payload gives it, and nothing else.                   *)
C9_SortedDescendingComplete ==
    RawxAccepted =>
        /\ \A s \in DOMAIN rx.msg.meas :
              LET list == rx.msg.meas[s]
              IN  /\ \A k \in 1 .. (Len(list) - 1) :
                        get_freq(list[k].channel) >= get_freq(list[k + 1].channel)
                  /\ Len(list) = Cardinality(DecodableFor(s, rx.i))
                  /\ \A i \in DecodableFor(s, rx.i) :
                        Occurrences(list, RecordMeas(i)) =
                            Cardinality({j \in DecodableFor(s, rx.i) :
                                            RecordMeas(j) = RecordMeas(i)})
        /\ \A i \in 0 .. (rx.i - 1) :
              RecordIds(i).tag = "Ok" => RecordIds(i).sat \in DOMAIN rx.msg.meas

(* C9 witness: from_message succeeded on a payload whose two records are   *)
(* of one satellite, the lower frequency first, and the list holds the     *)
(* second record before the first.                                         *)
C9_Witness ==
    /\ rpc = "ok"
    /\ rx.num = 2
    /\ RecordIds(0).tag = "Ok" /\ RecordIds(1).tag = "Ok"
    /\ RecordIds(0).sat = RecordIds(1).sat
    /\ get_freq(RecordIds(0).freq) < get_freq(RecordIds(1).freq)
    /\ rx.msg.meas[RecordIds(0).sat] = <<RecordMeas(1), RecordMeas(0)>>

(* C10: a frame is accepted only if class = 0x02, id = 0x15, the payload   *)
(* has at least 16 bytes and payload byte 11 equals (payload_len - 16)/32  *)
(* as integers, also when that count is 256 or more.                       *)
C10_CountMatches ==
    RawxAccepted =>
        /\ message.class = 2
        /\ message.id = 21
        /\ Len(message.payload) >= 16
        /\ message.payload[12] = (Len(message.payload) - 16) \div 32

----------------------------------------------------------------------------
(* parse_messages                                                          *)

MaxParseSegs == 2

DOLLAR == 36

(* std::str::from_utf8: TRUE iff b[i..] is well-formed UTF-8; a run of     *)
(* ASCII bytes is passed over at once.                                     *)
RECURSIVE Utf8Valid(_, _)
Utf8Valid(b, i) ==
    IF \A k \in i .. Len(b) : b[k] < 128 THEN TRUE
    ELSE LET c == b[i]
             cont(k) == k <= Len(b) /\ b[k] \in 128 .. 191
         IN  IF c < 128
             THEN Utf8Valid(b, CHOOSE k \in i .. Len(b) :
                                  b[k] >= 128 /\ \A j \in i .. (k - 1) : b[j] < 128)
             ELSE IF c \in 194 .. 223
             THEN cont(i + 1) /\ Utf8Valid(b, i + 2)
             ELSE IF c \in 224 .. 239
             THEN /\ i + 1 <= Len(b)
                  /\ b[i + 1] \in (IF c = 224 THEN 160 ELSE 128) .. (IF c = 237 THEN 159 ELSE 191)
                  /\ cont(i + 2)
                  /\ Utf8Valid(b, i + 3)
             ELSE IF c \in 240 .. 244
             THEN /\ i + 1 <= Len(b)
                  /\ b[i + 1] \in (IF c = 240 THEN 144 ELSE 128) .. (IF c = 244 THEN 143 ELSE 191)
                  /\ cont(i + 2)
                  /\ cont(i + 3)
                  /\ Utf8Valid(b, i + 4)
             ELSE FALSE

(* RawNmea::parse_str finds no sentence in a text without `$`: the regex   *)
(* starts with a literal `$`.                                              *)
NoSentence(b) == \A i \in 1 .. Len(b) : b[i] # DOLLAR

RawxFrame(payload) == Frame(RAWX_CLASS, RAWX_ID, payload)

(* Pieces of a recorded buffer: text without `$`, a two-byte UTF-8         *)
(* character and half of one, a stray sync byte, RAWX frames (no record,   *)
(* one record, a record of constellation 4, a record with prStdev 32, a    *)
(* negative time of week, a negative leap second, a wrong count), a frame  *)
(* of another class, and a frame that lacks its last byte.                 *)
ParsePieces ==
    {<<10>>, <<71>>, <<195, 169>>, <<169>>, <<SYNC1>>}
    \cup {RawxFrame(BasePayload(rs)) :
             rs \in {<<>>, <<BaseRec>>, <<[BaseRec EXCEPT !.gnss = 4]>>,
                     <<[BaseRec EXCEPT !.prStd = 32]>>}}
    \cup {RawxFrame(EncodeHeader(F64_Minus1, 2334, 18, 0, 1, 1)),
          RawxFrame(EncodeHeader(F64_345600, 2334, 255, 0, 1, 1)),
          RawxFrame(EncodeHeader(F64_345600, 2334, 18, 1, 1, 1)),
          FrameB,
          Truncated(FrameA, 1)}

ParseInputs == {Concat(ss) : ss \in SeqsUpTo(ParsePieces, MaxParseSegs)}

(* lib.rs:80-82: from_message returned Ok, the frame is pushed to rxm.     *)
ParseUbxPush ==
    /\ ppc = "run" /\ pc = "done" /\ messages # <<>>
    /\ LET r == from_message(Head(messages), checks)
       IN  r.tag = "Ok" /\ rxm' = Append(rxm, r.msg)
    /\ messages' = Tail(messages)
    /\ UNCHANGED <<storeVars, dataVars, nmeaVars, mulVars, serdeVars, newVars, readVars, tecVars, input, buf, origin, taken, pc, message, rx, rpc, checks, ppc, perr>>

(* lib.rs:83: from_message returned Err, which is logged and dropped.      *)
ParseUbxWarn ==
    /\ ppc = "run" /\ pc = "done" /\ messages # <<>>
    /\ from_message(Head(messages), checks).tag = "Err"
    /\ messages' = Tail(messages)
    /\ UNCHANGED <<storeVars, dataVars, nmeaVars, mulVars, serdeVars, newVars, readVars, tecVars, input, buf, origin, taken, pc, message, rx, rpc, checks, rxm,
                   ppc, perr>>

(* from_message panicked: parse_messages unwinds.                          *)
ParseUbxPanic ==
    /\ ppc = "run" /\ pc = "done" /\ messages # <<>>
    /\ from_message(Head(messages), checks).tag = "Panic"
    /\ ppc' = "panic"
    /\ UNCHANGED <<storeVars, dataVars, nmeaVars, mulVars, serdeVars, newVars, readVars, tecVars, input, buf, messages, origin, taken, pc, message, rx, rpc, checks,
                   rxm, perr>>

(* lib.rs:87: the residual is not UTF-8.                                   *)
ParseUtf8Err ==
    /\ ppc = "run" /\ pc = "done" /\ messages = <<>>
    /\ ~Utf8Valid(buf, 1)
    /\ ppc' = "err" /\ perr' = "ParseError"
    /\ UNCHANGED <<storeVars, dataVars, nmeaVars, mulVars, serdeVars, newVars, readVars, tecVars, input, buf, messages, origin, taken, pc, message, rx, rpc, checks,
                   rxm>>

(* lib.rs:88-89: the residual holds no sentence, create finds no ZDA.      *)
ParseNoFix ==
    /\ ppc = "run" /\ pc = "done" /\ messages = <<>>
    /\ Utf8Valid(buf, 1) /\ NoSentence(buf)
    /\ ppc' = "err" /\ perr' = "NoFix"
    /\ UNCHANGED <<storeVars, dataVars, nmeaVars, mulVars, serdeVars, newVars, readVars, tecVars, input, buf, messages, origin, taken, pc, message, rx, rpc, checks,
                   rxm>>

InitParse ==
    /\ \E b \in ParseInputs : SplitStart(b)
    /\ checks \in BOOLEAN
    /\ RawxIdle
    /\ rxm = <<>> /\ ppc = "run" /\ perr = ""
    /\ TecIdle
    /\ ReadIdle
    /\ NewIdle
    /\ SerdeIdle
    /\ MulIdle
    /\ NmeaIdle
    /\ DataIdle
    /\ StoreIdle

NextParse ==
    \/ SplitTake \/ SplitStop \/ SplitPanic
    \/ ParseUbxPush \/ ParseUbxWarn \/ ParseUbxPanic
    \/ ParseUtf8Err \/ ParseNoFix

SpecParse == InitParse /\ [][NextParse]_vars

(* C7: for every buffer parse_messages returns Ok or Err and never panics: *)
(* neither split_ubx nor from_message aborts the call.                     *)
C7_NeverPanics == pc # "panic" /\ ppc # "panic"

----------------------------------------------------------------------------
(* Properties of the RAWX header time                                      *)

(* The class, id, length and count checks of lines 478-494 pass.           *)
HeaderChecksPass(m) ==
    /\ m.class = RAWX_CLASS /\ m.id = RAWX_ID
    /\ Len(m.payload) >= HEADER_LEN
    /\ m.payload[12] = ((Len(m.payload) - HEADER_LEN) \div RECORD_LEN) % U8

(* rcvTow is non-negative and below 2^30 seconds.                          *)
TowInRange(m) ==
    LET d == DurationFromSecsF64(F64FromLe(SubSeq(m.payload, 1, 8)))
    IN  d.tag = "Ok" /\ ~d.big

(* C11: a header that passes the checks, with a non-negative rcvTow and    *)
(* any leapS in -128..127, is decoded to the timestamp GPS_EPOCH +         *)
(* week * 7 days + rcvTow seconds + leapS seconds, leapS taken as signed.  *)
C11_TimestampSigned ==
    (HeaderChecksPass(message) /\ TowInRange(message) /\ rpc # "check") =>
        LET d == DurationFromSecsF64(F64FromLe(SubSeq(message.payload, 1, 8)))
        IN  /\ rx # <<>>
            /\ rx.msg.timestamp =
                   [week |-> U16FromLe(SubSeq(message.payload, 9, 10)), big |-> FALSE,
                    secs |-> d.secs + I8(message.payload[11]), ms |-> d.ms]

----------------------------------------------------------------------------
(* Properties of the record loop                                           *)

RECURSIVE SumLens(_, _)
SumLens(meas, sats) ==
    IF sats = {} THEN 0
    ELSE LET s == CHOOSE t \in sats : TRUE
         IN  Len(meas[s]) + SumLens(meas, sats \ {s})

(* The records among the first n whose channel is not recognised.          *)
Unrecognised(n) == {i \in 0 .. (n - 1) : RecordIds(i).tag = "Err"}

(* C12: a record whose sigId is not recognised for its constellation is    *)
(* dropped alone: it ends the call neither with an error nor with a        *)
(* panic, the measurements of the other records decoded so far are all in  *)
(* the frame and nothing else is, and the header fields are those of the   *)
(* payload.                                                                *)
C12_UnknownSigDropped ==
    /\ rpc = "err" => rx = <<>>
    /\ (rpc = "panic" /\ rx # <<>>) => RecordIds(rx.i).tag # "Err"
    /\ RawxAccepted =>
          /\ \A i \in 0 .. (rx.i - 1) :
                RecordIds(i).tag = "Ok" =>
                    /\ RecordIds(i).sat \in DOMAIN rx.msg.meas
                    /\ Occurrences(rx.msg.meas[RecordIds(i).sat], RecordMeas(i)) >= 1
          /\ SumLens(rx.msg.meas, DOMAIN rx.msg.meas)
               = rx.i - Cardinality(Unrecognised(rx.i))
          /\ rx.msg.timestamp = HeaderTime(message.payload).timestamp
          /\ rx.msg.receiver_status = message.payload[13]
          /\ rx.msg.version = message.payload[14]

(* C12 witness: from_message succeeded on a payload of two records, one    *)
(* with an unrecognised sigId and one decodable, and the frame holds the   *)
(* one measurement.                                                        *)
C12_Witness ==
    /\ rpc = "ok"
    /\ rx.num = 2
    /\ Cardinality(Unrecognised(2)) = 1
    /\ SumLens(rx.msg.meas, DOMAIN rx.msg.meas) = 1

KnownGnssIds == {0, 1, 2, 3, 5, 6}

(* The records the loop has looked at: those before rx.i, and the one at   *)
(* rx.i when the call ended there.                                         *)
RecordsSeen ==
    IF rx = <<>> THEN {}
    ELSE {i \in 0 .. (rx.num - 1) : i < rx.i \/ (i = rx.i /\ rpc = "panic")}

(* C13: parse_sat_ids returns a (satellite, channel) pair or an error      *)
(* value for every record, a gnssId outside {0,1,2,3,5,6} is an error      *)
(* value, and such a record is dropped while the call goes on.             *)
C13_DecodingTotal ==
    \A i \in RecordsSeen :
        /\ RecordIds(i).tag \in {"Ok", "Err"}
        /\ message.payload[RecordStart(i) + 21] \notin KnownGnssIds
              => (RecordIds(i).tag = "Err" /\ i < rx.i)

----------------------------------------------------------------------------
(* TecInfo::assimilate                                                     *)

MaxTecRecs == 3

(* The derived Ord of GnssSatellite: the variant's position in the enum,   *)
(* then the satellite number.                                              *)
SatRank(sat) ==
    CASE sat.cons = "Gps" -> 0
      [] sat.cons = "Sbas" -> 1
      [] sat.cons = "Galileo" -> 2
      [] sat.cons = "Beidou" -> 3
      [] sat.cons = "Qzss" -> 4
      [] sat.cons = "Glonass" -> 5

SatLess(a, b) == SatRank(a) < SatRank(b) \/ (SatRank(a) = SatRank(b) /\ a.id < b.id)

(* factor: K * a * b / (a - b) with a, b the squared frequencies. The      *)
(* value is kept as its operands and the sign of the denominator; a zero   *)
(* denominator is a float division by zero, which does not panic.          *)
factor(f1, f2) ==
    [f1 |-> f1, f2 |-> f2,
     den |-> IF f1 = f2 THEN "zero" ELSE IF f1 > f2 THEN "positive" ELSE "negative"]

(* A join that also adds the satellites only the NMEA data has, with an    *)
(* empty list.                                                             *)
UbxGpsInfoMeasUnion(sat_views, meas) ==
    [s \in DOMAIN meas \cup DOMAIN sat_views |->
        [elevation |-> IF s \in DOMAIN sat_views THEN sat_views[s][1] ELSE -1,
         azimuth |-> IF s \in DOMAIN sat_views THEN sat_views[s][2] ELSE 0,
         meas |-> IF s \in DOMAIN meas THEN meas[s] ELSE <<>>]]

(* UbxGpsInfo::new: each list of rxm.meas with the satellite's view of     *)
(* the NMEA data, (-1, 0) when it has none.                                *)
UbxGpsInfoMeas(sat_views, meas) ==
    [s \in DOMAIN meas |->
        [elevation |-> IF s \in DOMAIN sat_views THEN sat_views[s][1] ELSE -1,
         azimuth |-> IF s \in DOMAIN sat_views THEN sat_views[s][2] ELSE 0,
         meas |-> meas[s]]]

(* The pair of the last two entries instead of the first two.              *)
TecPairLast(list) == <<list[Len(list) - 1], list[Len(list)]>>

(* Lines 51-52: m0 and m1.                                                 *)
TecPair(list) == <<list[1], list[2]>>

(* A phase-TEC that is given only when the pseudo-ranges are there too.    *)
TecPhaseNeedsRange(m0, m1, fac) ==
    IF m0.carrier_phase # None /\ m0.pseudo_range # None
    THEN IF m1.carrier_phase # None /\ m1.pseudo_range # None
         THEN Some(<<"phase", m0.carrier_phase, m1.carrier_phase, fac>>)
         ELSE None
    ELSE None

(* Lines 58-71: phase_tec, kept as its operands.                           *)
TecPhase(m0, m1, fac) ==
    IF m0.carrier_phase # None
    THEN IF m1.carrier_phase # None
         THEN Some(<<"phase", m0.carrier_phase, m1.carrier_phase, fac>>)
         ELSE None
    ELSE None

(* Lines 72-83: range_tec, kept as its operands.                           *)
TecRange(m0, m1, fac) ==
    IF m0.pseudo_range # None
    THEN IF m1.pseudo_range # None
         THEN Some(<<"range", m1.pseudo_range, m0.pseudo_range, fac>>)
         ELSE None
    ELSE None

(* Lines 48-97: the body of the loop for one satellite.                    *)
TecFor(sat, ch) ==
    IF Len(ch.meas) < 2 THEN [tag |-> "short"]
    ELSE LET m0 == TecPair(ch.meas)[1]
             m1 == TecPair(ch.meas)[2]
             fac == factor(get_freq(m0.channel), get_freq(m1.channel))
             phase_tec == TecPhase(m0, m1, fac)
             range_tec == TecRange(m0, m1, fac)
         IN  IF phase_tec = None /\ range_tec = None THEN [tag |-> "empty"]
             ELSE [tag |-> "push",
                   data |-> [source |-> sat,
                             pointing |-> <<ch.azimuth, ch.elevation>>,
                             channels |-> <<m0.channel, m1.channel>>,
                             phase_tec |-> phase_tec,
                             range_tec |-> range_tec,
                             trk_stat |-> <<m0.trk_stat, m1.trk_stat>>]]

(* A sort that leaves the list as it was pushed.                           *)
TecSortNone(v) == v

RECURSIVE TecInsert(_, _)
TecInsert(sorted, x) ==
    IF sorted = <<>> THEN <<x>>
    ELSE IF SatLess(x.source, Head(sorted).source)
         THEN <<x>> \o sorted
         ELSE <<Head(sorted)>> \o TecInsert(Tail(sorted), x)

RECURSIVE TecSortFrom(_, _)
TecSortFrom(v, acc) ==
    IF v = <<>> THEN acc ELSE TecSortFrom(Tail(v), TecInsert(acc, Head(v)))

(* Line 103: tec.sort_by(source), a stable sort.                           *)
TecSort(v) == TecSortFrom(v, <<>>)

(* Records of GPS 1 on L1CA, L2CL, L2CM and on L5 without carrier phase,   *)
(* of GPS 2 on L1CA and L5, of Galileo 1 on E5bI and of Glonass 3 on L1OF. *)
TecRecordSet ==
    {BaseRec,
     [BaseRec EXCEPT !.sig = 3, !.cp = F64_15e7],
     [BaseRec EXCEPT !.sig = 4],
     [BaseRec EXCEPT !.sig = 6, !.trk = 1],
     [BaseRec EXCEPT !.sv = 2],
     [BaseRec EXCEPT !.sv = 2, !.sig = 6],
     [BaseRec EXCEPT !.gnss = 2, !.sig = 5],
     [BaseRec EXCEPT !.gnss = 6, !.sv = 3, !.fid = 253]}

SatGps1 == [cons |-> "Gps", id |-> 1]
SatGlonass3 == [cons |-> "Glonass", id |-> 3]

(* NmeaGpsInfo.sat_views: none, or elevation 45 and azimuth 120 for GPS 1. *)
SatViews == {EmptyMap, [s \in {SatGps1} |-> <<45, 120>>]}

(* The measurement maps from_message decodes from up to MaxTecRecs         *)
(* records.                                                                *)
DecodedMeas ==
    {from_message(RawxMsg(BasePayload(rs)), FALSE).msg.meas :
        rs \in SeqsUpTo(TecRecordSet, MaxTecRecs)}

(* A CarrierMeas as a recorded file gives it, each of the two tuples       *)
(* present or not on its own.                                              *)
StoredMeas(ch, has_pr, has_cp, trk) ==
    [channel |-> ch,
     pseudo_range |-> IF has_pr THEN Some(<<F64FromLe(F64_2p24), 32>>) ELSE None,
     carrier_phase |-> IF has_cp THEN Some(<<F64FromLe(F64_1e8), 3>>) ELSE None,
     doppler |-> <<F32FromLe(F32_1234p5), 128>>,
     locktime |-> 64500,
     carrier_snr |-> 42,
     trk_stat |-> trk]

ChanL1 == [sys |-> "Gps", band |-> "L1CA", k |-> 0]
ChanL5 == [sys |-> "Gps", band |-> "L5", k |-> 0]
ChanG1 == [sys |-> "Glonass", band |-> "L1OF", k |-> -3]
ChanG2 == [sys |-> "Glonass", band |-> "L2OF", k |-> -3]

(* Lists of GPS 1: L1CA and L5 with every combination of tuples present,   *)
(* alone, and followed by a third entry.                                   *)
StoredLists ==
    {<<>>}
    \cup {<<StoredMeas(ChanL1, a, b, 3)>> : a, b \in BOOLEAN}
    \cup {<<StoredMeas(ChanL1, q[1], q[2], 3), StoredMeas(ChanL5, q[3], q[4], 1)>> :
             q \in BOOLEAN \X BOOLEAN \X BOOLEAN \X BOOLEAN}
    \cup {<<StoredMeas(ChanL1, a, a, 3), StoredMeas(ChanL5, TRUE, TRUE, 1),
            StoredMeas(ChanL5, b, b, 2)>> : a, b \in BOOLEAN}

(* Lists of Glonass 3: L1OF alone, and L1OF with L2OF.                     *)
StoredGlonassLists ==
    {<<StoredMeas(ChanG1, TRUE, TRUE, 3)>>}
    \cup {<<StoredMeas(ChanG1, TRUE, TRUE, 3), StoredMeas(ChanG2, TRUE, c, 3)>> :
             c \in BOOLEAN}

(* Maps of GPS 1 with one of those lists, with or without Glonass 3.       *)
StoredMeasMaps ==
    {[s \in {SatGps1} |-> l] : l \in StoredLists}
    \cup {[s \in {SatGps1, SatGlonass3} |-> IF s = SatGps1 THEN l ELSE g] :
             l \in StoredLists, g \in StoredGlonassLists}
    \cup {EmptyMap}

TecStart(m, from_decoder) ==
    /\ src = m
    /\ decoded = from_decoder
    /\ todo = DOMAIN m
    /\ tec = <<>>
    /\ tpc = "loop"

(* Lines 48-50: a satellite with fewer than two measurements.              *)
TecSkipShort ==
    /\ tpc = "loop"
    /\ \E sat \in todo :
          /\ TecFor(sat, src[sat]).tag = "short"
          /\ todo' = todo \ {sat}
    /\ UNCHANGED <<storeVars, dataVars, nmeaVars, mulVars, serdeVars, newVars, readVars, input, buf, messages, origin, taken, pc, message, rx, rpc, checks,
                   rxm, ppc, perr, src, decoded, tec, tpc>>

(* Lines 84-86: neither phase_tec nor range_tec.                           *)
TecSkipEmpty ==
    /\ tpc = "loop"
    /\ \E sat \in todo :
          /\ TecFor(sat, src[sat]).tag = "empty"
          /\ todo' = todo \ {sat}
    /\ UNCHANGED <<storeVars, dataVars, nmeaVars, mulVars, serdeVars, newVars, readVars, input, buf, messages, origin, taken, pc, message, rx, rpc, checks,
                   rxm, ppc, perr, src, decoded, tec, tpc>>

(* Lines 87-97: tec.push(TecData).                                         *)
TecPush ==
    /\ tpc = "loop"
    /\ \E sat \in todo :
          /\ TecFor(sat, src[sat]).tag = "push"
          /\ tec' = Append(tec, TecFor(sat, src[sat]).data)
          /\ todo' = todo \ {sat}
    /\ UNCHANGED <<storeVars, dataVars, nmeaVars, mulVars, serdeVars, newVars, readVars, input, buf, messages, origin, taken, pc, message, rx, rpc, checks,
                   rxm, ppc, perr, src, decoded, tpc>>

(* Lines 100-101: return None.                                             *)
TecReturnNone ==
    /\ tpc = "loop" /\ todo = {} /\ tec = <<>>
    /\ tpc' = "none"
    /\ UNCHANGED <<storeVars, dataVars, nmeaVars, mulVars, serdeVars, newVars, readVars, input, buf, messages, origin, taken, pc, message, rx, rpc, checks,
                   rxm, ppc, perr, src, decoded, todo, tec>>

(* Lines 102-108: sort and return Some(TecInfo).                           *)
TecReturnSome ==
    /\ tpc = "loop" /\ todo = {} /\ tec # <<>>
    /\ tec' = TecSort(tec)
    /\ tpc' = "some"
    /\ UNCHANGED <<storeVars, dataVars, nmeaVars, mulVars, serdeVars, newVars, readVars, input, buf, messages, origin, taken, pc, message, rx, rpc, checks,
                   rxm, ppc, perr, src, decoded, todo>>

InitTec ==
    /\ \/ \E m \in DecodedMeas, v \in SatViews : TecStart(UbxGpsInfoMeas(v, m), TRUE)
       \/ \E m \in StoredMeasMaps, v \in SatViews : TecStart(UbxGpsInfoMeas(v, m), FALSE)
    /\ SplitIdle
    /\ RawxIdle
    /\ ParseIdle
    /\ ReadIdle
    /\ NewIdle
    /\ SerdeIdle
    /\ MulIdle
    /\ NmeaIdle
    /\ DataIdle
    /\ StoreIdle
    /\ checks = FALSE

NextTec == TecSkipShort \/ TecSkipEmpty \/ TecPush \/ TecReturnNone \/ TecReturnSome

SpecTec == InitTec /\ [][NextTec]_vars

----------------------------------------------------------------------------
(* Properties of TecInfo::assimilate                                       *)

TecEntries == {tec[k] : k \in 1 .. Len(tec)}

TecOf(sat) == {d \in TecEntries : d.source = sat}

Visited == DOMAIN src \ todo

BothPhase(sat) ==
    src[sat].meas[1].carrier_phase # None /\ src[sat].meas[2].carrier_phase # None

BothRange(sat) ==
    src[sat].meas[1].pseudo_range # None /\ src[sat].meas[2].pseudo_range # None

(* The satellite has two measurements whose first two give a TEC.          *)
Yields(sat) == Len(src[sat].meas) >= 2 /\ (BothPhase(sat) \/ BothRange(sat))

(* C14: every TecData made from lists of the RAWX decoder has channels     *)
(* with f0 > f1 strictly, so the denominator of the factor is not zero.    *)
C14_StrictlyDescendingPair ==
    decoded =>
        \A d \in TecEntries :
            /\ get_freq(d.channels[1]) > get_freq(d.channels[2])
            /\ \A t \in {d.phase_tec, d.range_tec} : t # None => t[4].den = "positive"

(* C15: for a satellite with two measurements or more, phase_tec is        *)
(* present iff the first two entries both have a carrier phase, range_tec  *)
(* iff both have a pseudo-range, and the satellite is in the output iff    *)
(* one of the two is present.                                              *)
C15_TecPresence ==
    \A sat \in Visited :
        Len(src[sat].meas) >= 2 =>
            /\ TecOf(sat) # {} <=> (BothPhase(sat) \/ BothRange(sat))
            /\ \A d \in TecOf(sat) :
                  /\ d.phase_tec # None <=> BothPhase(sat)
                  /\ d.range_tec # None <=> BothRange(sat)

(* C15 witness: assimilate returned a TecData with a phase-TEC and no      *)
(* range-TEC, for a satellite whose second entry lacks the pseudo-range.   *)
C15_Witness ==
    /\ tpc = "some"
    /\ \E d \in TecEntries :
          /\ d.phase_tec # None /\ d.range_tec = None
          /\ src[d.source].meas[2].pseudo_range = None

(* C16: at most one TecData per satellite, none for a satellite with       *)
(* fewer than two measurements, and the channel pair and tracking-status   *)
(* pair are those of list entries 0 and 1.                                 *)
C16_FirstPairOnly ==
    /\ \A a, b \in 1 .. Len(tec) : tec[a].source = tec[b].source => a = b
    /\ \A d \in TecEntries :
          /\ d.source \in Visited
          /\ Len(src[d.source].meas) >= 2
          /\ d.channels = <<src[d.source].meas[1].channel, src[d.source].meas[2].channel>>
          /\ d.trk_stat = <<src[d.source].meas[1].trk_stat, src[d.source].meas[2].trk_stat>>

(* C16 witness: assimilate returned, one satellite with three entries is   *)
(* in the output and a satellite with one entry is not.                    *)
C16_Witness ==
    /\ tpc = "some"
    /\ \E d \in TecEntries :
          /\ Len(src[d.source].meas) >= 3
          /\ src[d.source].meas[3].trk_stat # src[d.source].meas[2].trk_stat
    /\ \E sat \in DOMAIN src : Len(src[sat].meas) = 1 /\ TecOf(sat) = {}

(* C17: None is returned iff no satellite yields a TecData; a returned     *)
(* list is not empty, holds each yielding satellite once and no other,     *)
(* and is ascending in the order of the Satellite variant, whatever the    *)
(* order the map was iterated in.                                          *)
C17_SortedBySatellite ==
    /\ tpc = "none" => \A sat \in DOMAIN src : ~Yields(sat)
    /\ tpc = "some" =>
          /\ tec # <<>>
          /\ \A k \in 1 .. (Len(tec) - 1) : SatLess(tec[k].source, tec[k + 1].source)
          /\ {d.source : d \in TecEntries} = {sat \in DOMAIN src : Yields(sat)}
          /\ Len(tec) = Cardinality({sat \in DOMAIN src : Yields(sat)})

(* C17 witness: assimilate returned a list of two satellites or more.      *)
C17_Witness == tpc = "some" /\ Len(tec) >= 2

----------------------------------------------------------------------------
(* ReadUntil::read_to_end                                                  *)

BLOCK == 1024
MaxShort == 3
MaxStream == 5
MaxRecords == 3
MaxCalls == 5

DEFAULT_DELIM == <<13, 13, 10, 10, 13, 13, 10, 10>>
ShortDelim == <<13, 10>>

(* self.buf[read..].windows(until.len()).position(|w| w == until): the     *)
(* first offset at which pat stands in b after the first rd bytes, or -1.  *)
Position(b, rd, pat) ==
    LET hits == {q \in 0 .. (Len(b) - rd - Len(pat)) :
                    SubSeq(b, rd + q + 1, rd + q + Len(pat)) = pat}
    IN  IF hits = {} THEN -1 ELSE CHOOSE q \in hits : \A h \in hits : q <= h

(* The sizes the upstream read may return: a short read of up to MaxShort  *)
(* bytes, or all it has up to a full block.                                *)
ReadSizes ==
    {n \in 1 .. Len(upstream) :
        n <= MaxShort \/ n = (IF Len(upstream) < BLOCK THEN Len(upstream) ELSE BLOCK)}

(* Lines 56-65 when the upstream read returns n > 0 bytes, or when the     *)
(* block still has bytes (n = 0): the block and position to scan from.     *)
Block(n) ==
    IF uread = Len(ubuf)
    THEN [b |-> SubSeq(upstream, 1, n), rd |-> 0,
          up |-> SubSeq(upstream, n + 1, Len(upstream))]
    ELSE [b |-> ubuf, rd |-> uread, up |-> upstream]

Sizes == IF uread = Len(ubuf) THEN ReadSizes ELSE {0}

Returned(tag, n, data, eof) == [tag |-> tag, n |-> n, data |-> data, eof |-> eof]

(* The caller calls read_to_end with an empty Vec.                         *)
ReadCall ==
    /\ upc = "idle"
    /\ Len(results) < MaxCalls
    /\ dst' = <<>>
    /\ nread' = 0
    /\ upc' = "loop"
    /\ UNCHANGED <<storeVars, dataVars, nmeaVars, mulVars, serdeVars, newVars, input, buf, messages, origin, taken, pc, message, rx, rpc, checks,
                   rxm, ppc, perr, tecVars, stream, upstream, until, ubuf, uread,
                   results>>

(* Lines 56-62 and 88-89: the block is used up and the upstream read       *)
(* returns 0: buf is cleared, read keeps its value, Ok(read).              *)
ReadEof ==
    /\ upc = "loop"
    /\ uread = Len(ubuf)
    /\ upstream = <<>>
    /\ ubuf' = <<>>
    /\ results' = Append(results, Returned("Ok", nread, dst, TRUE))
    /\ upc' = "idle"
    /\ UNCHANGED <<storeVars, dataVars, nmeaVars, mulVars, serdeVars, newVars, input, buf, messages, origin, taken, pc, message, rx, rpc, checks,
                   rxm, ppc, perr, tecVars, stream, upstream, until, uread, dst, nread>>

(* Lines 66-71: the position is beyond the block.                          *)
ReadErr ==
    /\ upc = "loop"
    /\ uread > Len(ubuf)
    /\ results' = Append(results, Returned("Err", 0, dst, FALSE))
    /\ upc' = "idle"
    /\ UNCHANGED <<storeVars, dataVars, nmeaVars, mulVars, serdeVars, newVars, input, buf, messages, origin, taken, pc, message, rx, rpc, checks,
                   rxm, ppc, perr, tecVars, stream, upstream, until, ubuf, uread, dst,
                   nread>>

(* Lines 77-81: the delimiter is in the block: the bytes before it are     *)
(* appended, the position moves behind it, Ok(read + pos).                 *)
ReadFound ==
    /\ upc = "loop"
    /\ uread <= Len(ubuf)
    /\ \E n \in Sizes :
          LET blk == Block(n)
              pos == Position(blk.b, blk.rd, until)
          IN  /\ pos >= 0
              /\ dst' = dst \o SubSeq(blk.b, blk.rd + 1, blk.rd + pos)
              /\ uread' = blk.rd + pos + Len(until)
              /\ ubuf' = blk.b
              /\ upstream' = blk.up
              /\ results' = Append(results, Returned("Ok", nread + pos, dst', FALSE))
    /\ upc' = "idle"
    /\ UNCHANGED <<storeVars, dataVars, nmeaVars, mulVars, serdeVars, newVars, input, buf, messages, origin, taken, pc, message, rx, rpc, checks,
                   rxm, ppc, perr, tecVars, stream, until, nread>>

(* Lines 82-86: no delimiter in the block: all of it is appended.          *)
ReadMore ==
    /\ upc = "loop"
    /\ uread <= Len(ubuf)
    /\ \E n \in Sizes :
          LET blk == Block(n)
          IN  /\ Position(blk.b, blk.rd, until) = -1
              /\ dst' = dst \o SubSeq(blk.b, blk.rd + 1, Len(blk.b))
              /\ uread' = Len(blk.b)
              /\ nread' = nread + (Len(blk.b) - blk.rd)
              /\ ubuf' = blk.b
              /\ upstream' = blk.up
    /\ UNCHANGED <<storeVars, dataVars, nmeaVars, mulVars, serdeVars, newVars, input, buf, messages, origin, taken, pc, message, rx, rpc, checks,
                   rxm, ppc, perr, tecVars, stream, until, results, upc>>

RECURSIVE Join(_, _)
Join(rs, d) ==
    IF Len(rs) = 0 THEN <<>>
    ELSE IF Len(rs) = 1 THEN rs[1]
    ELSE rs[1] \o d \o Join(Tail(rs), d)

StreamBytes == {65, 13, 10}

RecordBodies == {<<>>, <<65>>, <<66, 66>>, <<67, 67, 67>>}

(* Any bytes up to MaxStream with the two-byte delimiter; records joined   *)
(* by either delimiter; and streams whose delimiter lies across the end    *)
(* of the first full block, or right behind it.                            *)
ReadInputs ==
    {<<b, ShortDelim>> : b \in SeqsUpTo(StreamBytes, MaxStream)}
    \cup {<<Join(rs, d), d>> :
             rs \in SeqsUpTo(RecordBodies, MaxRecords) \ {<<>>},
             d \in {ShortDelim, DEFAULT_DELIM}}
    \cup {<<Tile(<<65>>, BLOCK - k) \o d \o <<66>>, d>> :
             k \in {0, 1}, d \in {ShortDelim, DEFAULT_DELIM}}

(* get_reader: an empty block at position 0.                               *)
get_reader(reader, pattern) ==
    /\ stream = reader /\ upstream = reader /\ until = pattern
    /\ ubuf = <<>> /\ uread = 0

InitRead ==
    /\ \E i \in ReadInputs : get_reader(i[1], i[2])
    /\ dst = <<>> /\ nread = 0 /\ results = <<>> /\ upc = "idle"
    /\ SplitIdle
    /\ RawxIdle
    /\ ParseIdle
    /\ TecIdle
    /\ NewIdle
    /\ SerdeIdle
    /\ MulIdle
    /\ NmeaIdle
    /\ DataIdle
    /\ StoreIdle
    /\ checks = FALSE

NextRead == ReadCall \/ ReadEof \/ ReadErr \/ ReadFound \/ ReadMore

SpecRead == InitRead /\ [][NextRead]_vars

----------------------------------------------------------------------------
(* Properties of ReadUntil::read_to_end                                    *)

(* The records of b: the bytes between one occurrence of d and the next.   *)
RECURSIVE SplitBy(_, _)
SplitBy(b, d) ==
    LET pos == Position(b, 0, d)
    IN  IF pos = -1 THEN <<b>>
        ELSE <<SubSeq(b, 1, pos)>> \o SplitBy(SubSeq(b, pos + Len(d) + 1, Len(b)), d)

(* C18: no payload a read_to_end call returns holds the delimiter as a     *)
(* contiguous byte sequence, however the upstream reads are cut.           *)
C18_NoDelimiterInPayload ==
    \A k \in 1 .. Len(results) :
        results[k].tag = "Ok" => Position(results[k].data, 0, until) = -1

(* C19: on the stream r1 D r2 D ... rn, the i-th read_to_end call appends  *)
(* exactly ri and returns Ok(len(ri)), however the upstream reads are cut. *)
C19_RecordsInOrder ==
    LET recs == SplitBy(stream, until)
    IN  \A i \in 1 .. Len(results) :
            i <= Len(recs) =>
                /\ results[i].tag = "Ok"
                /\ results[i].n = Len(recs[i])
                /\ results[i].data = recs[i]

(* C20: the call that meets the end of the upstream returns the bytes      *)
(* that remain as a success, and every later call returns Ok(0) and        *)
(* appends nothing.                                                        *)
C20_EofIsSticky ==
    \A i \in 1 .. Len(results) :
        results[i].eof =>
            /\ results[i].tag = "Ok"
            /\ results[i].n = Len(results[i].data)
            /\ \A j \in (i + 1) .. Len(results) :
                  /\ results[j].tag = "Ok"
                  /\ results[j].n = 0
                  /\ results[j].data = <<>>

----------------------------------------------------------------------------
(* Properties of the Glonass channel and of the standard deviations        *)

(* C23: every Glonass channel the decoder produces carries a slot k in     *)
(* -7..6, whatever the freqId byte, and its frequency is 1602.0 MHz +      *)
(* 562.5 kHz * k for L1OF and 1246.0 MHz + 437.5 kHz * k for L2OF.         *)
C23_GlonassSlotInRange ==
    RawxAccepted =>
        \A mes \in AllMeas :
            mes.channel.sys = "Glonass" =>
                /\ mes.channel.k \in -7 .. 6
                /\ mes.channel.band = "L1OF" =>
                      get_freq(mes.channel) = 1602000000 + 562500 * mes.channel.k
                /\ mes.channel.band = "L2OF" =>
                      get_freq(mes.channel) = 1246000000 + 437500 * mes.channel.k

(* v is 2^n: a value of the 32-bit intermediate is 2^n only for n <= 30.   *)
IsPow2Of(v, n) == n <= 30 /\ v = Pow2(n)

(* C26: for every prStdev and doStdev index byte the decoder yields        *)
(* 0.01 * 2^prStdev and 0.002 * 2^doStdev (kept as the power of two),      *)
(* and no record with a recognised channel makes the call fail.            *)
C26_StdevPowers ==
    /\ (rpc = "panic" /\ rx # <<>>) => RecordIds(rx.i).tag # "Ok"
    /\ RawxAccepted =>
          \A i \in 0 .. (rx.i - 1) :
              RecordIds(i).tag = "Ok" =>
                  \E mes \in AllMeas :
                      /\ mes = RecordMeas(i)
                      /\ IsPow2Of(mes.doppler[2], message.payload[RecordStart(i) + 30])
                      /\ mes.pseudo_range # None =>
                            IsPow2Of(mes.pseudo_range[2],
                                     message.payload[RecordStart(i) + 28])

----------------------------------------------------------------------------
(* UbxGpsInfo::new (ubx.rs:727-758)                                        *)

MaxNewRecs == 2

(* Lines 728-740 and 741-757: the join of the fix with the frame.          *)
UbxGpsInfoNew(fix, frame) ==
    [timestamp |-> fix.time,
     loc |-> fix.loc,
     quality |-> fix.quality,
     meas |-> IF frame = None THEN EmptyMap
              ELSE UbxGpsInfoMeas(fix.sat_views, frame.meas),
     receiver_status |-> IF frame = None THEN None ELSE Some(frame.receiver_status)]

SatGalileo5 == [cons |-> "Galileo", id |-> 5]

(* sat_views of a fix: none, GPS 1, Galileo 5 (no record names it), or     *)
(* GPS 1, Glonass 3 and Galileo 5.                                         *)
NewSatViews ==
    {EmptyMap,
     [s \in {SatGps1} |-> <<45, 120>>],
     [s \in {SatGalileo5} |-> <<10, 300>>],
     [s \in {SatGps1, SatGlonass3, SatGalileo5} |->
         IF s = SatGps1 THEN <<45, 120>> ELSE IF s = SatGlonass3 THEN <<0, 359>>
         ELSE <<10, 300>>]}

NewFixes ==
    {[time |-> t, loc |-> <<42, -71, 36>>, quality |-> 2, sat_views |-> v] :
        t \in {0, 1728080115}, v \in NewSatViews}

(* None, or a frame from_message decodes from up to MaxNewRecs records.    *)
NewFrames ==
    {None} \cup {from_message(RawxMsg(BasePayload(rs)), FALSE).msg :
                    rs \in SeqsUpTo(TecRecordSet, MaxNewRecs)}

NewStart(fix, frame) == nmea = fix /\ new_rxm = frame /\ gpsinfo = <<>>

NewCall ==
    /\ nmea # <<>> /\ gpsinfo = <<>>
    /\ gpsinfo' = UbxGpsInfoNew(nmea, new_rxm)
    /\ UNCHANGED <<storeVars, dataVars, nmeaVars, mulVars, serdeVars, readVars, tecVars, input, buf, messages, origin, taken, pc, message, rx,
                   rpc, checks, rxm, ppc, perr, nmea, new_rxm>>

InitNew ==
    /\ \E fix \in NewFixes, frame \in NewFrames : NewStart(fix, frame)
    /\ SplitIdle
    /\ RawxIdle
    /\ ParseIdle
    /\ TecIdle
    /\ ReadIdle
    /\ SerdeIdle
    /\ MulIdle
    /\ NmeaIdle
    /\ DataIdle
    /\ StoreIdle
    /\ checks = FALSE

NextNew == NewCall

SpecNew == InitNew /\ [][NextNew]_vars

(* C21: with a frame, the measurement map has the satellites of rxm.meas   *)
(* and no other, each with the frame's list unchanged and the view of the  *)
(* NMEA data, (-1, 0) when it has none; without a frame the map is empty   *)
(* and receiver_status is None.                                            *)
C21_JoinBySatellite ==
    gpsinfo # <<>> =>
        IF new_rxm = None
        THEN gpsinfo.meas = EmptyMap /\ gpsinfo.receiver_status = None
        ELSE /\ DOMAIN gpsinfo.meas = DOMAIN new_rxm.meas
             /\ gpsinfo.receiver_status = Some(new_rxm.receiver_status)
             /\ \A s \in DOMAIN new_rxm.meas :
                   /\ gpsinfo.meas[s].meas = new_rxm.meas[s]
                   /\ <<gpsinfo.meas[s].elevation, gpsinfo.meas[s].azimuth>> =
                         (IF s \in DOMAIN nmea.sat_views THEN nmea.sat_views[s]
                          ELSE <<-1, 0>>)

(* C21: a join of a frame with two satellites, one with a view and one     *)
(* without, and a fix with a view of a satellite the frame lacks.          *)
C21_Witness ==
    /\ gpsinfo # <<>> /\ new_rxm # None
    /\ \E s, t \in DOMAIN new_rxm.meas :
          /\ s \in DOMAIN nmea.sat_views /\ t \notin DOMAIN nmea.sat_views
          /\ new_rxm.meas[s] # <<>>
    /\ DOMAIN nmea.sat_views \ DOMAIN new_rxm.meas # {}

----------------------------------------------------------------------------
(* Serialize / Deserialize of GnssSatellite (src/src/nmea.rs:24-62)        *)

Constellations == {"Gps", "Sbas", "Galileo", "Beidou", "Qzss", "Glonass"}

(* The two ASCII letters of each arm of serialize.                         *)
Prefix(cons) ==
    CASE cons = "Gps" -> <<71, 80>>
      [] cons = "Sbas" -> <<71, 78>>
      [] cons = "Galileo" -> <<71, 65>>
      [] cons = "Beidou" -> <<71, 66>>
      [] cons = "Qzss" -> <<71, 81>>
      [] cons = "Glonass" -> <<71, 76>>

(* One digit of {:02X}: 0-9, then A-F.                                     *)
HexDigit(n) == IF n < 10 THEN 48 + n ELSE 55 + n

(* serialize: the prefix and the number as two upper-case hex digits.      *)
serialize(sat) == Prefix(sat.cons) \o <<HexDigit(sat.id \div 16), HexDigit(sat.id % 16)>>

(* The value of a hex digit as u8::from_str_radix reads it, -1 for a byte  *)
(* that is none.                                                           *)
HexValue(c) ==
    IF c \in 48 .. 57 THEN c - 48
    ELSE IF c \in 65 .. 70 THEN c - 55
    ELSE IF c \in 97 .. 102 THEN c - 87
    ELSE -1

(* u8::from_str_radix(&s[2..], 16).unwrap_or_default() on two characters.  *)
ParseHexU8(t) ==
    IF Len(t) = 2 /\ HexValue(t[1]) >= 0 /\ HexValue(t[2]) >= 0
    THEN 16 * HexValue(t[1]) + HexValue(t[2])
    ELSE 0

(* from_nmea_svid: the Glonass arm computes svid - 64 on u8, which panics  *)
(* below 64 when overflow checks are on and wraps when they are off.       *)
from_nmea_svid(cls, svid, chk) ==
    CASE cls = <<71, 80>> -> [tag |-> "Ok", sat |-> [cons |-> "Gps", id |-> svid]]
      [] cls = <<71, 66>> -> [tag |-> "Ok", sat |-> [cons |-> "Beidou", id |-> svid]]
      [] cls = <<71, 65>> -> [tag |-> "Ok", sat |-> [cons |-> "Galileo", id |-> svid]]
      [] cls = <<71, 76>> ->
            IF svid < 64 /\ chk THEN [tag |-> "Panic", err |-> "overflow"]
            ELSE [tag |-> "Ok", sat |-> [cons |-> "Glonass", id |-> (svid - 64) % U8]]
      [] cls = <<71, 78>> -> [tag |-> "Ok", sat |-> [cons |-> "Sbas", id |-> svid]]
      [] cls = <<71, 81>> -> [tag |-> "Ok", sat |-> [cons |-> "Qzss", id |-> svid]]
      [] OTHER -> [tag |-> "Panic", err |-> "unreachable"]

(* deserialize: the first two characters and the rest as a hex number.     *)
deserialize(t, chk) ==
    from_nmea_svid(SubSeq(t, 1, 2), ParseHexU8(SubSeq(t, 3, Len(t))), chk)

SerdeStart(sat) == satellite = sat /\ json = <<>> /\ restored = <<>> /\ jpc = "value"

SerdeSerialize ==
    /\ jpc = "value"
    /\ json' = serialize(satellite)
    /\ jpc' = "text"
    /\ UNCHANGED <<storeVars, dataVars, nmeaVars, mulVars, newVars, readVars, tecVars, input, buf, messages, origin, taken, pc,
                   message, rx, rpc, checks, rxm, ppc, perr, satellite, restored>>

SerdeDeserialize ==
    /\ jpc = "text"
    /\ LET r == deserialize(json, checks)
       IN  r.tag = "Ok" /\ restored' = r.sat
    /\ jpc' = "done"
    /\ UNCHANGED <<storeVars, dataVars, nmeaVars, mulVars, newVars, readVars, tecVars, input, buf, messages, origin, taken, pc,
                   message, rx, rpc, checks, rxm, ppc, perr, satellite, json>>

SerdePanic ==
    /\ jpc = "text"
    /\ deserialize(json, checks).tag = "Panic"
    /\ jpc' = "panic"
    /\ UNCHANGED <<storeVars, dataVars, nmeaVars, mulVars, newVars, readVars, tecVars, input, buf, messages, origin, taken, pc,
                   message, rx, rpc, checks, rxm, ppc, perr, satellite, json, restored>>

InitSerde ==
    /\ \E c \in Constellations, id \in Byte : SerdeStart([cons |-> c, id |-> id])
    /\ checks \in BOOLEAN
    /\ SplitIdle
    /\ RawxIdle
    /\ ParseIdle
    /\ TecIdle
    /\ ReadIdle
    /\ NewIdle
    /\ MulIdle
    /\ NmeaIdle
    /\ DataIdle
    /\ StoreIdle

NextSerde == SerdeSerialize \/ SerdeDeserialize \/ SerdePanic

SpecSerde == InitSerde /\ [][NextSerde]_vars

(* C29: the string is the prefix and two hex digits, and deserialising it  *)
(* gives the satellite back, for every constellation and number 0..255.    *)
C29_SerdeRoundTrip ==
    /\ jpc # "panic"
    /\ jpc \in {"text", "done"} =>
          /\ Len(json) = 4
          /\ SubSeq(json, 1, 2) = Prefix(satellite.cons)
          /\ 16 * HexValue(json[3]) + HexValue(json[4]) = satellite.id
    /\ jpc = "done" => restored = satellite

----------------------------------------------------------------------------
(* Uncertain (uncertain.rs): From and Mul                                  *)

MaxValue == 3
MaxError == 2

(* Uncertain(value, stdev) is the pair <<value, stdev>>.                   *)
UncertainFrom(value) == <<value, 0>>

(* Line 82: err = sqrt((u1 / v1)^2 + (u2 / v2)^2). The root is kept as     *)
(* the fraction under it, num / den with den > 0; a zero value makes a     *)
(* division by zero, whose float result is infinite or NaN.                *)
MulErr(v1, u1, v2, u2) ==
    IF v1 = 0 \/ v2 = 0
    THEN [kind |-> "nonfinite"]
    ELSE [kind |-> "root",
          num |-> u1 * u1 * v2 * v2 + u2 * u2 * v1 * v1,
          den |-> v1 * v1 * v2 * v2]

(* Lines 77-84: the product of the values with that root as its stdev.     *)
UncertainMul(self, other) ==
    <<self[1] * other[1], MulErr(self[1], self[2], other[1], other[2])>>

(* The root of num / den is the number u >= 0.                             *)
RootIs(err, u) == err.kind = "root" /\ err.num = u * u * err.den

Uncertains == {<<v, u>> : v \in (-MaxValue) .. MaxValue, u \in 0 .. MaxError}

MulStart(a, b) == lhs = a /\ rhs = b /\ product = <<>>

MulCall ==
    /\ lhs # <<>> /\ product = <<>>
    /\ product' = UncertainMul(lhs, rhs)
    /\ UNCHANGED <<storeVars, dataVars, nmeaVars, serdeVars, newVars, readVars, tecVars, input, buf, messages, origin,
                   taken, pc, message, rx, rpc, checks, rxm, ppc, perr, lhs, rhs>>

InitMul ==
    /\ \E a \in Uncertains, b \in Uncertains \cup {UncertainFrom(1)} : MulStart(a, b)
    /\ checks = FALSE
    /\ SplitIdle
    /\ RawxIdle
    /\ ParseIdle
    /\ TecIdle
    /\ ReadIdle
    /\ NewIdle
    /\ SerdeIdle
    /\ NmeaIdle
    /\ DataIdle
    /\ StoreIdle

NextMul == MulCall

SpecMul == InitMul /\ [][NextMul]_vars

(* C24: for x = (v, s) with v # 0 and s >= 0, the product of x and the     *)
(* exact value 1 has the value v and the stdev s.                          *)
C24_MulIdentity ==
    (product # <<>> /\ rhs = UncertainFrom(1) /\ lhs[1] # 0 /\ lhs[2] >= 0) =>
        /\ product[1] = lhs[1]
        /\ RootIs(product[2], lhs[2])

----------------------------------------------------------------------------
(* RawNmea::parse_str and NmeaGpsInfo::create (src/src/nmea.rs)            *)

COMMA == 44
STAR == 42
DOT == 46
MINUS == 45
LF == 10

MaxSentences == 2

IsDigit(c) == c \in 48 .. 57
IsUpper(c) == c \in 65 .. 90
(* [A-F0-9] *)
IsCkChar(c) == c \in (48 .. 57) \cup (65 .. 70)

Min(S) == CHOOSE x \in S : \A y \in S : x <= y

(* Line 93: fold(0, |acc, &x| acc ^ x) over the payload: bit j of the      *)
(* result is the parity of bit j over all the bytes.                       *)
RECURSIVE XorFrom(_, _)
XorFrom(b, j) ==
    IF j = 8 THEN 0
    ELSE (Cardinality({i \in 1 .. Len(b) : Bit(b[i], j) = 1}) % 2) * Pow2(j)
             + XorFrom(b, j + 1)

XorFold(b) == XorFrom(b, 0)

(* The regex of line 88 tried at position p: `$`, two and three capital    *)
(* letters, a comma, the shortest data without a line feed, `*` and two    *)
(* checksum characters. The position of the `*`, or 0 without a match.     *)
SentenceStar(t, p) ==
    IF ~(/\ p + 6 <= Len(t)
         /\ t[p] = DOLLAR
         /\ \A j \in 1 .. 5 : IsUpper(t[p + j])
         /\ t[p + 6] = COMMA)
    THEN 0
    ELSE LET stars == {q \in (p + 7) .. (Len(t) - 2) :
                          t[q] = STAR /\ IsCkChar(t[q + 1]) /\ IsCkChar(t[q + 2])}
         IN  IF stars = {} THEN 0
             ELSE IF \E j \in (p + 7) .. (Min(stars) - 1) : t[j] = LF THEN 0
             ELSE Min(stars)

(* Lines 92-119: captures_iter takes the leftmost match from `from` on,    *)
(* keeps it when the checksums agree, and goes on behind it.               *)
RECURSIVE parse_from(_, _)
parse_from(t, from) ==
    LET starts == {p \in from .. Len(t) : SentenceStar(t, p) > 0}
    IN  IF starts = {} THEN <<>>
        ELSE LET p == Min(starts)
                 q == SentenceStar(t, p)
                 calc_cksum == XorFold(SubSeq(t, p + 1, q - 1))
                 cksum == 16 * HexValue(t[q + 1]) + HexValue(t[q + 2])
                 rest == parse_from(t, q + 3)
             IN  IF calc_cksum = cksum
                 THEN <<[id |-> SubSeq(t, p + 1, p + 2),
                         class |-> SubSeq(t, p + 3, p + 5),
                         data |-> SubSeq(t, p + 7, q - 1)]>> \o rest
                 ELSE rest

(* The map of line 91 as the sequence of its sentences: data[kind] is the  *)
(* subsequence of that kind.                                               *)
parse_str(t) == parse_from(t, 1)

OfKind(data, kind) == SelectSeq(data, LAMBDA m : m.class = kind)

KIND_ZDA == <<90, 68, 65>>
KIND_GGA == <<71, 71, 65>>
KIND_GSV == <<71, 83, 86>>

(* The comma-separated fields of a data string.                            *)
RECURSIVE Fields(_)
Fields(d) ==
    LET commas == {i \in 1 .. Len(d) : d[i] = COMMA}
    IN  IF commas = {} THEN <<d>>
        ELSE <<SubSeq(d, 1, Min(commas) - 1)>> \o Fields(SubSeq(d, Min(commas) + 1, Len(d)))

(* The number a string of digits stands for.                               *)
RECURSIVE Num(_)
Num(d) == IF d = <<>> THEN 0 ELSE 10 * Num(SubSeq(d, 1, Len(d) - 1)) + (d[Len(d)] - 48)

IsDigits(f) == \A j \in 1 .. Len(f) : IsDigit(f[j])
IsDigitsDots(f) == \A j \in 1 .. Len(f) : IsDigit(f[j]) \/ f[j] = DOT
IsSignDigitsDots(f) == \A j \in 1 .. Len(f) : IsDigit(f[j]) \/ f[j] = DOT \/ f[j] = MINUS

(* f has, from position p on, the digits and dots of shape ("d" a digit).  *)
ShapeAt(f, p, shape) ==
    /\ p >= 1 /\ p + Len(shape) - 1 <= Len(f)
    /\ \A j \in 1 .. Len(shape) :
          IF shape[j] = "d" THEN IsDigit(f[p + j - 1]) ELSE f[p + j - 1] = DOT

(* \d{6}\.\d{2} right before the comma that ends the field.                *)
TimeShape == <<"d", "d", "d", "d", "d", "d", ".", "d", "d">>
EndsWithTime(f) == ShapeAt(f, Len(f) - 8, TimeShape)

(* chrono: the day exists in the proleptic Gregorian calendar.             *)
DaysIn(year, month) ==
    IF month \in {4, 6, 9, 11} THEN 30
    ELSE IF month = 2
    THEN (IF year % 4 = 0 /\ (year % 100 # 0 \/ year % 400 = 0) THEN 29 ELSE 28)
    ELSE 31

(* Lines 272-281: chrono's parse of year-month-dayThour:minute:second     *)
(* from the captures of the regex.                                         *)
ZdaTime(t) ==
    IF /\ t.month \in 1 .. 12
       /\ t.day \in 1 .. DaysIn(t.year, t.month)
       /\ t.hour <= 23 /\ t.minute <= 59 /\ t.second <= 60
    THEN [tag |-> "Ok", time |-> t]
    ELSE [tag |-> "Err", err |-> "ParseError"]

ZdaCaptures(time, day, month, year) ==
    ZdaTime([year |-> Num(SubSeq(year, 1, 4)),
             month |-> Num(month),
             day |-> Num(day),
             hour |-> Num(SubSeq(time, Len(time) - 8, Len(time) - 7)),
             minute |-> Num(SubSeq(time, Len(time) - 6, Len(time) - 5)),
             second |-> Num(SubSeq(time, Len(time) - 4, Len(time) - 3)),
             centi |-> Num(SubSeq(time, Len(time) - 1, Len(time)))])

ZdaMatch(f, i) == ZdaCaptures(f[i], f[i + 1], f[i + 2], f[i + 3])

ZdaHits(f) ==
    {i \in 1 .. (Len(f) - 3) :
        /\ EndsWithTime(f[i])
        /\ Len(f[i + 1]) = 2 /\ IsDigits(f[i + 1])
        /\ Len(f[i + 2]) = 2 /\ IsDigits(f[i + 2])
        /\ ShapeAt(f[i + 3], 1, <<"d", "d", "d", "d">>)}

ZdaFields(f, hits) ==
    IF hits = {} THEN [tag |-> "Err", err |-> "PatternNotFound"]
    ELSE ZdaMatch(f, Min(hits))

(* parse_zda, lines 265-283: the regex, unanchored, then chrono's parse.   *)
parse_zda(inp) == ZdaFields(Fields(inp), ZdaHits(Fields(inp)))

GgaHits(f) ==
    {i \in 1 .. (Len(f) - 13) :
        /\ EndsWithTime(f[i])
        /\ IsDigitsDots(f[i + 1])
        /\ f[i + 2] \in {<<78>>, <<83>>}
        /\ IsDigitsDots(f[i + 3])
        /\ f[i + 4] \in {<<69>>, <<87>>}
        /\ Len(f[i + 5]) = 1 /\ IsCkChar(f[i + 5][1])
        /\ IsDigits(f[i + 6])
        /\ IsDigitsDots(f[i + 7])
        /\ IsSignDigitsDots(f[i + 8])
        /\ f[i + 9] = <<77>>
        /\ IsSignDigitsDots(f[i + 10])
        /\ f[i + 11] = <<77>>
        /\ IsSignDigitsDots(f[i + 12])}

GgaMatch(f, i) ==
    [tag |-> "Ok", lat |-> f[i + 1], lat_dir |-> f[i + 2],
     lon |-> f[i + 3], lon_dir |-> f[i + 4], quality |-> f[i + 5],
     alt |-> f[i + 8], msl |-> f[i + 10]]

GgaFields(f, hits) ==
    IF hits = {} THEN [tag |-> "Err", err |-> "PatternNotFound"]
    ELSE GgaMatch(f, Min(hits))

(* parse_gga, lines 285-292: the regex, unanchored; the captures by name.  *)
parse_gga(inp) == GgaFields(Fields(inp), GgaHits(Fields(inp)))

AngleShape(width) == [j \in 1 .. (width + 8) |-> IF j = width + 3 THEN "." ELSE "d"]

AngleAt(inp, dir, width, negative, hits) ==
    IF hits = {} THEN [tag |-> "Err", err |-> "PatternNotFound"]
    ELSE [tag |-> "Ok",
          v |-> [deg |-> Num(SubSeq(inp, Min(hits), Min(hits) + width - 1)),
                 min |-> 100000 * Num(SubSeq(inp, Min(hits) + width, Min(hits) + width + 1))
                             + Num(SubSeq(inp, Min(hits) + width + 3, Min(hits) + width + 7)),
                 neg |-> dir = negative]]

(* parse_lat / parse_lon, lines 227-263: degrees of `width` digits and     *)
(* minutes \d{2}\.\d{5}, found anywhere in the field; the minutes are kept *)
(* in units of 1e-5 and the sign by the hemisphere letter.                 *)
ParseAngle(inp, dir, width, negative) ==
    AngleAt(inp, dir, width, negative,
            {p \in 1 .. Len(inp) : ShapeAt(inp, p, AngleShape(width))})

parse_lat(inp, dir) == ParseAngle(inp, dir, 2, <<83>>)
parse_lon(inp, dir) == ParseAngle(inp, dir, 3, <<87>>)

FloatBody(neg, body, dots) ==
    IF \/ \E j \in 1 .. Len(body) : body[j] = MINUS
       \/ Cardinality(dots) > 1
       \/ ~ \E j \in 1 .. Len(body) : IsDigit(body[j])
    THEN [tag |-> "Err"]
    ELSE [tag |-> "Ok",
          v |-> [neg |-> neg,
                 whole |-> Num(SubSeq(body, 1, Min(dots \cup {Len(body) + 1}) - 1)),
                 frac |-> SubSeq(body, Min(dots \cup {Len(body) + 1}) + 1, Len(body))]]

FloatSigned(neg, body) == FloatBody(neg, body, {j \in 1 .. Len(body) : body[j] = DOT})

(* str::parse::<f32> on a string of digits, dots and minus signs: an       *)
(* optional leading minus, at most one dot, at least one digit. The value  *)
(* is kept as sign, whole part and fraction digits.                        *)
ParseFloat(f) ==
    IF f # <<>> /\ f[1] = MINUS THEN FloatSigned(TRUE, Tail(f)) ELSE FloatSigned(FALSE, f)

FloatDefault == [neg |-> FALSE, whole |-> 0, frac |-> <<>>]

(* str::parse of an unsigned or i8 number of digits, 0 when it fails.      *)
ParseOrDefault(d, max) ==
    IF d # <<>> /\ Len(d) <= 6 /\ Num(d) <= max THEN Num(d) ELSE 0

(* Lines 323-329: each four fields of the payload that end in a comma give *)
(* (svid, elevation, azimuth).                                             *)
GsvSats(g) ==
    [tag |-> "Ok",
     sats |-> [k \in 1 .. ((Len(g) - 1) \div 4) |->
                  <<ParseOrDefault(g[4 * k - 3], 255),
                    ParseOrDefault(g[4 * k - 2], 127),
                    ParseOrDefault(g[4 * k - 1], 65535)>>]]

GsvEnds(rest, ends) ==
    IF ends = {} THEN [tag |-> "Err", err |-> "PatternNotFound"]
    ELSE GsvSats(Fields(SubSeq(rest, 1, Max(ends))))

GsvRun(rest, run) ==
    GsvEnds(rest, {j \in 0 .. run : j + 1 <= Len(rest) /\ IsCkChar(rest[j + 1])})

GsvStops(rest, stops) ==
    GsvRun(rest, IF stops = {} THEN Len(rest) ELSE Min(stops) - 1)

GsvRest(rest) ==
    GsvStops(rest, {j \in 1 .. Len(rest) : ~(IsDigit(rest[j]) \/ rest[j] = COMMA)})

GsvFields(inp, f) ==
    IF Len(f) < 4 \/ ~(IsDigits(f[1]) /\ IsDigits(f[2]) /\ IsDigits(f[3]))
    THEN [tag |-> "Err", err |-> "PatternNotFound"]
    ELSE GsvRest(SubSeq(inp, Len(f[1]) + Len(f[2]) + Len(f[3]) + 4, Len(inp)))

(* parse_gsv, lines 312-331, for data whose first three fields are digits: *)
(* the payload is the longest run of digits and commas behind them that    *)
(* leaves a digit or A-F to follow.                                        *)
parse_gsv(inp) == GsvFields(inp, Fields(inp))

(* Lines 207-219: the views one sentence adds, a later satellite of the    *)
(* same name replacing an earlier one.                                     *)
GsvInsert(views, sats, named, new) ==
    [sat \in DOMAIN views \cup new |->
        IF sat \in new
        THEN <<sats[Max({k \in 1 .. Len(sats) : named[k].sat = sat})][2],
               sats[Max({k \in 1 .. Len(sats) : named[k].sat = sat})][3]>>
        ELSE views[sat]]

(* Lines 199-222: the views of every GSV sentence that parses;             *)
(* from_nmea_svid on the talker of the sentence may panic.                 *)
RECURSIVE GsvViews(_, _, _)
GsvNamed(gsv, views, chk, sats, named) ==
    IF \E k \in 1 .. Len(sats) : named[k].tag = "Panic"
    THEN [tag |-> "Panic", err |-> "from_nmea_svid"]
    ELSE GsvViews(Tail(gsv),
                  GsvInsert(views, sats, named, {named[k].sat : k \in 1 .. Len(sats)}),
                  chk)

GsvSentence(gsv, views, chk, sats) ==
    GsvNamed(gsv, views, chk, sats,
             [k \in 1 .. Len(sats) |-> from_nmea_svid(Head(gsv).id, sats[k][1], chk)])

GsvParsed(gsv, views, chk, r) ==
    GsvSentence(gsv, views, chk, IF r.tag = "Ok" THEN r.sats ELSE <<>>)

GsvViews(gsv, views, chk) ==
    IF gsv = <<>> THEN [tag |-> "Ok", views |-> views]
    ELSE GsvParsed(gsv, views, chk, parse_gsv(Head(gsv).data))

(* Lines 171-224, with every field parsed: the errors of `?` in the order  *)
(* of the struct expression, then the GSV loop. The VTG and GSA parts      *)
(* (185-198) only fill headings, speed and dilutions, with defaults when   *)
(* they do not parse, and are left out of the record.                      *)
CreateInfo(time, gga, lat, lon, alt, msl, views) ==
    IF lat.tag = "Err" THEN lat
    ELSE IF lon.tag = "Err" THEN lon
    ELSE IF alt.tag = "Err" THEN [tag |-> "Err", err |-> "ParseError"]
    ELSE IF views.tag = "Panic" THEN views
    ELSE [tag |-> "Ok",
          info |-> [time |-> time.time,
                    loc |-> <<lat.v, lon.v, alt.v>>,
                    quality |-> HexValue(gga.quality[1]),
                    msl |-> IF msl.tag = "Ok" THEN msl.v ELSE FloatDefault,
                    sat_views |-> views.views]]

(* Lines 169-170: the first ZDA and the first GGA, their errors returned.  *)
CreateFrom(time, gga, gsv, chk) ==
    IF time.tag = "Err" THEN time
    ELSE IF gga.tag = "Err" THEN gga
    ELSE CreateInfo(time, gga,
                    parse_lat(gga.lat, gga.lat_dir), parse_lon(gga.lon, gga.lon_dir),
                    ParseFloat(gga.alt), ParseFloat(gga.msl),
                    GsvViews(gsv, EmptyMap, chk))

(* create, lines 162-224.                                                  *)
create(data, chk) ==
    IF OfKind(data, KIND_ZDA) = <<>> THEN [tag |-> "Err", err |-> "NoFix"]
    ELSE IF OfKind(data, KIND_GGA) = <<>> THEN [tag |-> "Err", err |-> "PatternNotFound"]
    ELSE CreateFrom(parse_zda(OfKind(data, KIND_ZDA)[1].data),
                    parse_gga(OfKind(data, KIND_GGA)[1].data),
                    OfKind(data, KIND_GSV), chk)

(* "GNZDA,221515.00,03,10,2024,00,00" *)
PAYLOAD_ZDA ==
    <<71, 78, 90, 68, 65, 44, 50, 50, 49, 53, 49, 53, 46, 48, 48, 44, 48,
      51, 44, 49, 48, 44, 50, 48, 50, 52, 44, 48, 48, 44, 48, 48>>

(* "GNZDA,,,,,00,00" *)
PAYLOAD_ZDA_EMPTY ==
    <<71, 78, 90, 68, 65, 44, 44, 44, 44, 44, 48, 48, 44, 48, 48>>

(* "GNZDA,221515.00,03,13,2024,00,00" *)
PAYLOAD_ZDA_MONTH13 ==
    <<71, 78, 90, 68, 65, 44, 50, 50, 49, 53, 49, 53, 46, 48, 48, 44, 48,
      51, 44, 49, 51, 44, 50, 48, 50, 52, 44, 48, 48, 44, 48, 48>>

(* "GNGGA,221515.00,4238.96342,N,07118.97943,W,2,12,1.04,36.7,M,-33.0,M,,0131" *)
PAYLOAD_GGA ==
    <<71, 78, 71, 71, 65, 44, 50, 50, 49, 53, 49, 53, 46, 48, 48, 44, 52,
      50, 51, 56, 46, 57, 54, 51, 52, 50, 44, 78, 44, 48, 55, 49, 49, 56,
      46, 57, 55, 57, 52, 51, 44, 87, 44, 50, 44, 49, 50, 44, 49, 46, 48,
      52, 44, 51, 54, 46, 55, 44, 77, 44, 45, 51, 51, 46, 48, 44, 77, 44,
      44, 48, 49, 51, 49>>

(* "GNGGA,221515.00,,,,,0,00,99.99,,,,,," *)
PAYLOAD_GGA_NOFIX ==
    <<71, 78, 71, 71, 65, 44, 50, 50, 49, 53, 49, 53, 46, 48, 48, 44, 44,
      44, 44, 44, 48, 44, 48, 48, 44, 57, 57, 46, 57, 57, 44, 44, 44, 44,
      44, 44>>

(* "GNGGA,221515.00,4238.96342,N,07118.97943,W,2,12,1.04,,M,-33.0,M,,0131" *)
PAYLOAD_GGA_NOALT ==
    <<71, 78, 71, 71, 65, 44, 50, 50, 49, 53, 49, 53, 46, 48, 48, 44, 52,
      50, 51, 56, 46, 57, 54, 51, 52, 50, 44, 78, 44, 48, 55, 49, 49, 56,
      46, 57, 55, 57, 52, 51, 44, 87, 44, 50, 44, 49, 50, 44, 49, 46, 48,
      52, 44, 44, 77, 44, 45, 51, 51, 46, 48, 44, 77, 44, 44, 48, 49, 51,
      49>>

(* "GPGSV,1,1,02,09,16,316,,28,30,090,,0" *)
PAYLOAD_GPGSV ==
    <<71, 80, 71, 83, 86, 44, 49, 44, 49, 44, 48, 50, 44, 48, 57, 44, 49,
      54, 44, 51, 49, 54, 44, 44, 50, 56, 44, 51, 48, 44, 48, 57, 48, 44,
      44, 48>>

(* "GLGSV,2,2,05,86,05,011,20,1" *)
PAYLOAD_GLGSV ==
    <<71, 76, 71, 83, 86, 44, 50, 44, 50, 44, 48, 53, 44, 56, 54, 44, 48,
      53, 44, 48, 49, 49, 44, 50, 48, 44, 49>>

(* "GLGSV,1,1,01,,45,316,,0" *)
PAYLOAD_GLGSV_NULL ==
    <<71, 76, 71, 83, 86, 44, 49, 44, 49, 44, 48, 49, 44, 44, 52, 53, 44,
      51, 49, 54, 44, 44, 48>>

(* "GNRMC,221515.00,A,4238.96342,N,07118.97943,W,0.046,,031024,,,D,V" *)
PAYLOAD_RMC ==
    <<71, 78, 82, 77, 67, 44, 50, 50, 49, 53, 49, 53, 46, 48, 48, 44, 65,
      44, 52, 50, 51, 56, 46, 57, 54, 51, 52, 50, 44, 78, 44, 48, 55, 49,
      49, 56, 46, 57, 55, 57, 52, 51, 44, 87, 44, 48, 46, 48, 52, 54, 44,
      44, 48, 51, 49, 48, 50, 52, 44, 44, 44, 68, 44, 86>>

(* A sentence as the receiver sends it: `$`, the payload, `*`, the XOR of  *)
(* the payload as two hex digits, CR LF.                                   *)
NmeaLine(payload) ==
    <<DOLLAR>> \o payload
        \o <<STAR, HexDigit(XorFold(payload) \div 16), HexDigit(XorFold(payload) % 16)>>
        \o <<13, 10>>

(* The same sentence with a checksum that is off by one bit.               *)
DamagedLine(payload) ==
    <<DOLLAR>> \o payload
        \o <<STAR, HexDigit(XorFold(payload) \div 16),
             HexDigit(FlipBit(XorFold(payload) % 16, 0))>>
        \o <<13, 10>>

NmeaLines ==
    {NmeaLine(pl) : pl \in {PAYLOAD_ZDA, PAYLOAD_ZDA_EMPTY, PAYLOAD_ZDA_MONTH13,
                            PAYLOAD_GGA, PAYLOAD_GGA_NOFIX, PAYLOAD_GGA_NOALT,
                            PAYLOAD_GPGSV, PAYLOAD_GLGSV, PAYLOAD_GLGSV_NULL,
                            PAYLOAD_RMC}}
    \cup {DamagedLine(pl) : pl \in {PAYLOAD_ZDA, PAYLOAD_GGA}}

(* A good ZDA and GGA with one more sentence between, before or behind.    *)
NmeaGroups ==
    {Concat(<<a, NmeaLine(PAYLOAD_ZDA), b, NmeaLine(PAYLOAD_GGA), c>>) :
        a, b, c \in {<<>>, NmeaLine(PAYLOAD_GPGSV), NmeaLine(PAYLOAD_GLGSV),
                     NmeaLine(PAYLOAD_GLGSV_NULL)}}

NmeaInputs == {Concat(ls) : ls \in SeqsUpTo(NmeaLines, MaxSentences)} \cup NmeaGroups

NmeaStart(t) == text = t /\ gpsmsg = <<>> /\ created = <<>> /\ npc = "text"

NmeaParseStr ==
    /\ npc = "text"
    /\ gpsmsg' = parse_str(text)
    /\ npc' = "parsed"
    /\ UNCHANGED <<storeVars, dataVars, mulVars, serdeVars, newVars, readVars, tecVars, input, buf, messages,
                   origin, taken, pc, message, rx, rpc, checks, rxm, ppc, perr, text,
                   created>>

NmeaCreateOk ==
    /\ npc = "parsed"
    /\ \E r \in {create(gpsmsg, checks)} : r.tag = "Ok" /\ created' = r
    /\ npc' = "ok"
    /\ UNCHANGED <<storeVars, dataVars, mulVars, serdeVars, newVars, readVars, tecVars, input, buf, messages,
                   origin, taken, pc, message, rx, rpc, checks, rxm, ppc, perr, text,
                   gpsmsg>>

NmeaCreateErr ==
    /\ npc = "parsed"
    /\ \E r \in {create(gpsmsg, checks)} : r.tag = "Err" /\ created' = r
    /\ npc' = "err"
    /\ UNCHANGED <<storeVars, dataVars, mulVars, serdeVars, newVars, readVars, tecVars, input, buf, messages,
                   origin, taken, pc, message, rx, rpc, checks, rxm, ppc, perr, text,
                   gpsmsg>>

NmeaCreatePanic ==
    /\ npc = "parsed"
    /\ create(gpsmsg, checks).tag = "Panic"
    /\ npc' = "panic"
    /\ UNCHANGED <<storeVars, dataVars, mulVars, serdeVars, newVars, readVars, tecVars, input, buf, messages,
                   origin, taken, pc, message, rx, rpc, checks, rxm, ppc, perr, text,
                   gpsmsg, created>>

InitNmea ==
    /\ \E t \in NmeaInputs : NmeaStart(t)
    /\ checks \in BOOLEAN
    /\ SplitIdle
    /\ RawxIdle
    /\ ParseIdle
    /\ TecIdle
    /\ ReadIdle
    /\ NewIdle
    /\ SerdeIdle
    /\ MulIdle
    /\ DataIdle
    /\ StoreIdle

NextNmea == NmeaParseStr \/ NmeaCreateOk \/ NmeaCreateErr \/ NmeaCreatePanic

SpecNmea == InitNmea /\ [][NextNmea]_vars

(* C22: create yields a fix exactly when the validated sentences hold a    *)
(* ZDA and a GGA; without a ZDA the result is NoFix, and with a ZDA but no *)
(* GGA it is PatternNotFound.                                              *)
C22_FixIffZdaAndGga ==
    npc \in {"ok", "err", "panic"} =>
        LET zda == OfKind(gpsmsg, KIND_ZDA) # <<>>
            gga == OfKind(gpsmsg, KIND_GGA) # <<>>
        IN  /\ (npc = "ok") <=> (zda /\ gga)
            /\ ~zda => (npc = "err" /\ created.err = "NoFix")
            /\ (zda /\ ~gga) => (npc = "err" /\ created.err = "PatternNotFound")

----------------------------------------------------------------------------
(* parse_datafile (lib.rs:138-160) over ReadUntil and parse_messages       *)

MaxDataRecords == 2

(* split_ubx, lines 618-628 of ubx.rs, as one value: the loop of           *)
(* SplitTake until find_rxm_raw returns an error.                          *)
RECURSIVE split_ubx(_, _)
SplitFound(b, msgs, r) ==
    IF r.tag = "Ok"
    THEN split_ubx(Remove(b, r.at, r.upto),
                   Append(msgs, UbxMessage(r.class, r.id, SubSeq(b, r.at, r.upto))))
    ELSE IF r.tag = "Panic" THEN r
    ELSE [tag |-> "Ok", messages |-> msgs, buf |-> b]

split_ubx(b, msgs) == SplitFound(b, msgs, find_rxm_raw(b))

(* lib.rs:87-91: the residual as text, the fix, and the join with the     *)
(* last decoded frame (rxm.pop()).                                         *)
ParseJoin(fix, good) ==
    IF fix.tag # "Ok" THEN fix
    ELSE [tag |-> "Ok",
          info |-> UbxGpsInfoNew(fix.info,
                                 IF good = <<>> THEN None ELSE Some(good[Len(good)].msg))]

(* lib.rs:78-86: the result of from_message for every frame.               *)
ParseDecoded(residual, dec, chk) ==
    IF \E k \in 1 .. Len(dec) : dec[k].tag = "Panic"
    THEN [tag |-> "Panic", err |-> "from_message"]
    ELSE IF ~Utf8Valid(residual, 1) THEN [tag |-> "Err", err |-> "ParseError"]
    ELSE ParseJoin(create(parse_str(residual), chk),
                   SelectSeq(dec, LAMBDA r : r.tag = "Ok"))

ParseSplit(sp, chk) ==
    IF sp.tag = "Panic" THEN sp
    ELSE ParseDecoded(sp.buf,
                      [k \in 1 .. Len(sp.messages) |-> from_message(sp.messages[k], chk)],
                      chk)

(* parse_messages, lib.rs:74-93, as one value.                             *)
parse_messages(b, chk) == ParseSplit(split_ubx(b, <<>>), chk)

(* A record the receiver wrote with a fix, alone and behind a RAWX frame,  *)
(* and a record that is a frame cut off before its last byte.              *)
FixRecord == NmeaLine(PAYLOAD_ZDA) \o NmeaLine(PAYLOAD_GGA)
FixRawxRecord == RawxFrame(BasePayload(<<BaseRec>>)) \o FixRecord
CutRecord == Truncated(FrameA, 1)

(* Records of a data file: with a fix, without a sentence, cut off, and    *)
(* empty.                                                                  *)
DataRecords == {FixRecord, <<65>>, CutRecord, <<>>}

(* Files of up to MaxDataRecords records joined by the delimiter, with     *)
(* and without a delimiter behind the last; and files with an empty or     *)
(* unparsable record between two others.                                   *)
DataFiles ==
    {Join(rs, DEFAULT_DELIM) \o tail :
        rs \in SeqsUpTo(DataRecords, MaxDataRecords) \ {<<>>},
        tail \in {<<>>, DEFAULT_DELIM}}
    \cup {Join(<<<<66>>, mid, FixRawxRecord>>, DEFAULT_DELIM) : mid \in {<<>>, <<65>>}}

(* Line 146: the loop calls read_to_end with a fresh Vec.                  *)
DataCall ==
    /\ dpc = "call" /\ upc = "idle"
    /\ dst' = <<>>
    /\ nread' = 0
    /\ upc' = "loop"
    /\ dpc' = "ret"
    /\ UNCHANGED <<storeVars, nmeaVars, mulVars, serdeVars, newVars, tecVars, input, buf, messages,
                   origin, taken, pc, message, rx, rpc, checks, rxm, ppc, perr, stream,
                   upstream, until, ubuf, uread, results, buffers, handed>>

Last == results[Len(results)]

(* Lines 146-148 and 155-157: read_to_end returned Ok(0) or an error, the  *)
(* loop ends and the buffers are returned.                                 *)
DataBreak ==
    /\ dpc = "ret" /\ upc = "idle"
    /\ Last.tag = "Err" \/ Last.n = 0
    /\ dpc' = "done"
    /\ UNCHANGED <<storeVars, nmeaVars, mulVars, serdeVars, newVars, readVars, tecVars, input, buf,
                   messages, origin, taken, pc, message, rx, rpc, checks, rxm, ppc, perr,
                   buffers, handed>>

(* Lines 150-151: parse_messages returned Ok, its UbxGpsInfo is pushed.    *)
DataPush ==
    /\ dpc = "ret" /\ upc = "idle"
    /\ Last.tag = "Ok" /\ Last.n # 0
    /\ \E r \in {parse_messages(Last.data, checks)} :
          r.tag = "Ok" /\ buffers' = Append(buffers, r.info)
    /\ handed' = Append(handed, Last.data)
    /\ dpc' = "call"
    /\ UNCHANGED <<storeVars, nmeaVars, mulVars, serdeVars, newVars, readVars, tecVars, input, buf,
                   messages, origin, taken, pc, message, rx, rpc, checks, rxm, ppc, perr>>

(* Lines 152-154: parse_messages returned Err, which is logged.            *)
DataWarn ==
    /\ dpc = "ret" /\ upc = "idle"
    /\ Last.tag = "Ok" /\ Last.n # 0
    /\ parse_messages(Last.data, checks).tag = "Err"
    /\ handed' = Append(handed, Last.data)
    /\ dpc' = "call"
    /\ UNCHANGED <<storeVars, nmeaVars, mulVars, serdeVars, newVars, readVars, tecVars, input, buf,
                   messages, origin, taken, pc, message, rx, rpc, checks, rxm, ppc, perr,
                   buffers>>

(* parse_messages panicked: parse_datafile unwinds.                        *)
DataPanic ==
    /\ dpc = "ret" /\ upc = "idle"
    /\ Last.tag = "Ok" /\ Last.n # 0
    /\ parse_messages(Last.data, checks).tag = "Panic"
    /\ handed' = Append(handed, Last.data)
    /\ dpc' = "panic"
    /\ UNCHANGED <<storeVars, nmeaVars, mulVars, serdeVars, newVars, readVars, tecVars, input, buf,
                   messages, origin, taken, pc, message, rx, rpc, checks, rxm, ppc, perr,
                   buffers>>

InitData ==
    /\ \E f \in DataFiles : get_reader(f, DEFAULT_DELIM)
    /\ dst = <<>> /\ nread = 0 /\ results = <<>> /\ upc = "idle"
    /\ buffers = <<>> /\ handed = <<>> /\ dpc = "call"
    /\ checks = FALSE
    /\ SplitIdle
    /\ RawxIdle
    /\ ParseIdle
    /\ TecIdle
    /\ NewIdle
    /\ SerdeIdle
    /\ MulIdle
    /\ NmeaIdle
    /\ StoreIdle

NextData ==
    \/ DataCall \/ ReadEof \/ ReadErr \/ ReadFound \/ ReadMore
    \/ DataBreak \/ DataPush \/ DataWarn \/ DataPanic

SpecData == InitData /\ [][NextData]_vars

(* The UbxGpsInfo of the records of recs that parse, in order.             *)
InfoIf(r) == IF r.tag = "Ok" THEN <<r.info>> ELSE <<>>

RECURSIVE InfoOf(_, _)
InfoOf(recs, chk) ==
    IF recs = <<>> THEN <<>>
    ELSE InfoIf(parse_messages(Head(recs), chk)) \o InfoOf(Tail(recs), chk)

(* C28: parse_datafile hands every record of the file that is not empty    *)
(* to parse_messages, in file order, and returns the UbxGpsInfo of those   *)
(* that parse: an empty or unparsable record does not end the loop.        *)
C28_EveryRecordProcessed ==
    /\ dpc # "panic"
    /\ dpc = "done" =>
          LET recs == SelectSeq(SplitBy(stream, until), LAMBDA r : r # <<>>)
          IN  /\ handed = recs
              /\ buffers = InfoOf(recs, checks)


-----------------------------------------------------------------------------
(* StoreCfg of ublox-recorder (store.rs): new, store, drop and the         *)
(* compression thread                                                      *)

MaxStores == 2
MaxDates == 2
MaxHours == 2
MaxStoreCalls == 4

StoreIds == 1 .. MaxStores
Dates == 1 .. MaxDates
Hours == 1 .. MaxHours

(* tstamp.format("%Y%m%d") and tstamp.format("%H"), lines 151-152.         *)
DateText(date) == <<date>>
HourText(hour) == <<hour>>

(* Paths: PathBuf::new() is the empty path, a root directory is named by   *)
(* its StoreCfg, root.join(date) is a day directory and the file of an     *)
(* hour lies in it (lines 158 and 164-166).                                *)
EmptyPath == <<>>
Root(s) == <<s>>
DayDir(s, date) == Root(s) \o date
HourFile(dir, hour) == dir \o hour
DayDirs == {DayDir(s, DateText(date)) : s \in StoreIds, date \in Dates}

(* The messages of the channel, Option<PathBuf>.                           *)
SomeDir(dir) == [some |-> TRUE, dir |-> dir]
NoDir == [some |-> FALSE, dir |-> EmptyPath]

(* A StoreCfg that has not been constructed yet.                           *)
NoStore ==
    [state |-> "none", current_dir |-> EmptyPath, last_date |-> None, last_hour |-> None,
     writer |-> None, compress_tx |-> FALSE, compress_hdl |-> FALSE]

(* The caller's thread is inside hdl.join() of a drop.                     *)
Joining == \E s \in StoreIds : cfg[s].state = "joining"

(* tx.send: the message is queued while the receiver exists; once the      *)
(* worker has returned the receiver is gone, send returns Err and the      *)
(* message is dropped (the callers ignore the result, lines 44 and 156).   *)
Send(q, msg) == IF compressor \in {"recv", "compress"} THEN Append(q, msg) ELSE q

(* StoreCfg::new, lines 64-148. The first call with compress set creates   *)
(* the channel, stores its sender in the static and spawns the worker;     *)
(* every later call clones the stored sender and gets no handle.           *)
New(s, compress) ==
    /\ cfg[s].state = "none" /\ ~Joining
    /\ dirs' = dirs \cup {Root(s)}
    /\ IF compress /\ COMPRESSION_THREAD_TX = None
       THEN /\ COMPRESSION_THREAD_TX' = Some(<<"ctx">>)
            /\ mpsc' = <<>>
            /\ compressor' = "recv"
       ELSE UNCHANGED <<COMPRESSION_THREAD_TX, mpsc, compressor>>
    /\ cfg' = [cfg EXCEPT ![s] =
                  [NoStore EXCEPT !.state = "alive",
                                  !.compress_tx = compress,
                                  !.compress_hdl = compress /\ COMPRESSION_THREAD_TX = None]]
    /\ UNCHANGED <<last_dir, files, tarballs, sent, received, nwrites>>
    /\ UNCHANGED <<dataVars, nmeaVars, mulVars, serdeVars, newVars, readVars, tecVars, input,
                   buf, messages, origin, taken, pc, message, rx, rpc, checks, rxm, ppc,
                   perr>>

(* Lines 153-162 of store: the date of the write is not the last date.     *)
Rolled(c, s, date) ==
    [c EXCEPT !.current_dir = DayDir(s, date), !.last_date = Some(date), !.last_hour = None]

(* Lines 163-173: the hour of the write is not the last hour, the file of  *)
(* the hour is created or opened for append.                               *)
Opened(c, hour) ==
    [c EXCEPT !.writer = HourFile(c.current_dir, hour), !.last_hour = Some(hour)]

(* StoreCfg::store, lines 150-185, with the date and hour as text.         *)
(* File::create fails when the day directory no longer exists; the error   *)
(* is returned after the changes of lines 153-162.                         *)
store(s, date, hour) ==
    /\ cfg[s].state = "alive" /\ ~Joining
    /\ nwrites < MaxStoreCalls
    /\ nwrites' = nwrites + 1
    /\ \E roll \in {cfg[s].last_date # Some(date)} :
       \E c \in {IF roll THEN Rolled(cfg[s], s, date) ELSE cfg[s]} :
          /\ IF roll /\ cfg[s].compress_tx
             THEN /\ mpsc' = Send(mpsc, SomeDir(cfg[s].current_dir))
                  /\ sent' = Append(sent, [by |-> s, dir |-> cfg[s].current_dir])
             ELSE UNCHANGED <<mpsc, sent>>
          /\ dirs' = IF roll THEN dirs \cup {Root(s), c.current_dir} ELSE dirs
          /\ IF c.last_hour # Some(hour)
             THEN IF c.current_dir \in dirs'
                  THEN /\ cfg' = [cfg EXCEPT ![s] = Opened(c, hour)]
                       /\ files' = files \cup {HourFile(c.current_dir, hour)}
                  ELSE /\ cfg' = [cfg EXCEPT ![s] = c]
                       /\ UNCHANGED files
             ELSE /\ cfg' = [cfg EXCEPT ![s] = c]
                  /\ UNCHANGED files
    /\ UNCHANGED <<COMPRESSION_THREAD_TX, compressor, last_dir, tarballs, received>>
    /\ UNCHANGED <<dataVars, nmeaVars, mulVars, serdeVars, newVars, readVars, tecVars, input,
                   buf, messages, origin, taken, pc, message, rx, rpc, checks, rxm, ppc,
                   perr>>

(* Drop, lines 40-49: the StoreCfg that holds the handle sends the         *)
(* sentinel and joins the worker; any other is just dropped.               *)
Drop(s) ==
    /\ cfg[s].state = "alive" /\ ~Joining
    /\ IF cfg[s].compress_tx /\ cfg[s].compress_hdl
       THEN /\ mpsc' = Send(mpsc, NoDir)
            /\ cfg' = [cfg EXCEPT ![s].state = "joining", ![s].compress_hdl = FALSE]
       ELSE /\ cfg' = [cfg EXCEPT ![s].state = "dropped"]
            /\ UNCHANGED mpsc
    /\ UNCHANGED <<COMPRESSION_THREAD_TX, compressor, last_dir, dirs, files, tarballs, sent,
                   received, nwrites>>
    /\ UNCHANGED <<dataVars, nmeaVars, mulVars, serdeVars, newVars, readVars, tecVars, input,
                   buf, messages, origin, taken, pc, message, rx, rpc, checks, rxm, ppc,
                   perr>>

(* Line 45: hdl.join() returns when the worker has returned.               *)
DropJoin(s) ==
    /\ cfg[s].state = "joining"
    /\ compressor = "exited"
    /\ cfg' = [cfg EXCEPT ![s].state = "dropped"]
    /\ UNCHANGED <<COMPRESSION_THREAD_TX, mpsc, compressor, last_dir, dirs, files, tarballs,
                   sent, received, nwrites>>
    /\ UNCHANGED <<dataVars, nmeaVars, mulVars, serdeVars, newVars, readVars, tecVars, input,
                   buf, messages, origin, taken, pc, message, rx, rpc, checks, rxm, ppc,
                   perr>>

(* Lines 84-85: rx.recv() returns a directory. The static keeps a sender   *)
(* for the life of the process, so recv never returns Err.                 *)
WorkerRecv ==
    /\ compressor = "recv"
    /\ mpsc # <<>> /\ Head(mpsc).some
    /\ last_dir' = Head(mpsc).dir
    /\ received' = Append(received, Head(mpsc).dir)
    /\ mpsc' = Tail(mpsc)
    /\ compressor' = "compress"
    /\ UNCHANGED <<cfg, COMPRESSION_THREAD_TX, dirs, files, tarballs, sent, nwrites>>
    /\ UNCHANGED <<dataVars, nmeaVars, mulVars, serdeVars, newVars, readVars, tecVars, input,
                   buf, messages, origin, taken, pc, message, rx, rpc, checks, rxm, ppc,
                   perr>>

(* Lines 123-127: rx.recv() returns the sentinel, the thread returns and   *)
(* its receiver is dropped with what is still queued.                      *)
WorkerExit ==
    /\ compressor = "recv"
    /\ mpsc # <<>> /\ ~Head(mpsc).some
    /\ mpsc' = <<>>
    /\ compressor' = "exited"
    /\ UNCHANGED <<cfg, COMPRESSION_THREAD_TX, last_dir, dirs, files, tarballs, sent,
                   received, nwrites>>
    /\ UNCHANGED <<dataVars, nmeaVars, mulVars, serdeVars, newVars, readVars, tecVars, input,
                   buf, messages, origin, taken, pc, message, rx, rpc, checks, rxm, ppc,
                   perr>>

(* Lines 87-122: File::create of last_dir with the extension tar.gz (it    *)
(* fails for the empty path, which has no file name), the directory is     *)
(* appended to the archive and, when that succeeded (ok), removed with     *)
(* all its files. A last_dir that does not exist cannot be appended.       *)
WorkerCompress(ok) ==
    /\ compressor = "compress"
    /\ compressor' = "recv"
    /\ tarballs' = IF last_dir = EmptyPath THEN tarballs ELSE tarballs \cup {last_dir}
    /\ IF last_dir # EmptyPath /\ last_dir \in dirs /\ ok
       THEN /\ dirs' = dirs \ {last_dir}
            /\ files' = {f \in files : SubSeq(f, 1, Len(last_dir)) # last_dir}
       ELSE UNCHANGED <<dirs, files>>
    /\ UNCHANGED <<cfg, COMPRESSION_THREAD_TX, mpsc, last_dir, sent, received, nwrites>>
    /\ UNCHANGED <<dataVars, nmeaVars, mulVars, serdeVars, newVars, readVars, tecVars, input,
                   buf, messages, origin, taken, pc, message, rx, rpc, checks, rxm, ppc,
                   perr>>

InitStore ==
    /\ cfg = [s \in StoreIds |-> NoStore]
    /\ COMPRESSION_THREAD_TX = None
    /\ mpsc = <<>> /\ compressor = "none" /\ last_dir = EmptyPath
    /\ dirs = {} /\ files = {} /\ tarballs = {}
    /\ sent = <<>> /\ received = <<>> /\ nwrites = 0
    /\ checks = FALSE
    /\ SplitIdle
    /\ RawxIdle
    /\ ParseIdle
    /\ TecIdle
    /\ ReadIdle
    /\ NewIdle
    /\ SerdeIdle
    /\ MulIdle
    /\ NmeaIdle
    /\ DataIdle

Worker == WorkerRecv \/ WorkerExit \/ (\E ok \in BOOLEAN : WorkerCompress(ok))

NextStore ==
    \/ \E s \in StoreIds, compress \in BOOLEAN : New(s, compress)
    \/ \E s \in StoreIds, date \in Dates, hour \in Hours :
          store(s, DateText(date), HourText(hour))
    \/ \E s \in StoreIds : Drop(s)
    \/ \E s \in StoreIds : DropJoin(s)
    \/ WorkerRecv
    \/ WorkerExit
    \/ \E ok \in BOOLEAN : WorkerCompress(ok)

SpecStore == InitStore /\ [][NextStore]_vars

(* The compression thread is scheduled: it cannot stay forever at a        *)
(* message it can receive or at a directory it has received.               *)
SpecStoreLive == SpecStore /\ WF_vars(Worker)


(* C25: on a StoreCfg with compression, store hands a path to the worker   *)
(* exactly when the date of the write differs from the date of the         *)
(* previous write of this StoreCfg, and the path is the day directory of   *)
(* that previous write; the first write and a write of the same day hand   *)
(* over nothing.                                                           *)
C25_HandsOverPreviousDay ==
    [][\A s \in StoreIds :
          /\ (/\ cfg[s].state = "alive" /\ cfg[s].compress_tx
              /\ cfg[s].last_date # None
              /\ cfg'[s].last_date # cfg[s].last_date)
                => sent' = Append(sent, [by |-> s, dir |-> DayDir(s, cfg[s].last_date)])
          /\ (Len(sent') > Len(sent) /\ sent'[Len(sent')].by = s)
                => /\ cfg[s].compress_tx
                   /\ cfg[s].last_date # None
                   /\ cfg'[s].last_date # cfg[s].last_date
                   /\ sent'[Len(sent')].dir = DayDir(s, cfg[s].last_date)]_vars

(* How often dir was passed to tx.send, and how often the worker has       *)
(* received it and finished with it.                                       *)
SentCount(dir) == Cardinality({i \in 1 .. Len(sent) : sent[i].dir = dir})
DoneCount(dir) ==
    Cardinality({i \in 1 .. Len(received) : received[i] = dir})
        - (IF compressor = "compress" /\ last_dir = dir THEN 1 ELSE 0)
Waiting(dir) == SentCount(dir) > DoneCount(dir)

(* C27: with StoreCfg values that share the one worker, every directory    *)
(* a live StoreCfg enqueues is eventually received and processed by the    *)
(* worker, also after another StoreCfg (the one that spawned the worker    *)
(* included) has been dropped, and for a StoreCfg created after that.      *)
C27_EnqueuedIsProcessed == \A dir \in DayDirs : Waiting(dir) ~> ~Waiting(dir)

(* C30: whatever the order of the timestamps, the worker never removes     *)
(* the current directory of a live StoreCfg, nor the file its writer has   *)
(* open.                                                                   *)
C30_CurrentDirNotRemoved ==
    \A s \in StoreIds :
        (cfg[s].state = "alive" /\ cfg[s].compress_tx /\ cfg[s].current_dir # EmptyPath)
            => /\ cfg[s].current_dir \in dirs
               /\ cfg[s].writer # None => cfg[s].writer \in files

=============================================================================
